---- MODULE Spec2Model ----
(***************************************************************************)
(* Session control of web_soundboard.py: the /play, /stop, /live-start and *)
(* /live-stop handlers served by concurrent request threads, the motion    *)
(* thread of a playback session, the external playback and live processes, *)
(* and the actuator (servo pulse width, power line) they all write.        *)
(* The actuator variables hold the last command issued to pigpio; a write  *)
(* that raises has still been issued and only changes the control flow.    *)
(***************************************************************************)
EXTENDS Integers, Sequences, FiniteSets, TLC

\* ---------------------------------------------------------------- bounds
NumWorkers == 2
MaxPlays == 2
MaxLive == 2
MaxLivePlays == 1
MaxCtlLive == 1
EnvLen == 2
MaxDelay == 3
MaxBlocks == 4
MaxAngles == 2
MaxFileSteps == 5
MaxLoud == 3
MaxTrackBlocks == 28
MaxSamples == 4
MaxGeomAngles == 1
MaxClipSamples == 20
MaxHistBlocks == 5
RunnerEnvLen == 3
MaxCatList == 2

\* ------------------------------------------------------ program constants
SERVO_US_MIN == 500
SERVO_US_MAX == 2500
DEFAULT_CLOSED_ANGLE == 5
DEFAULT_OPEN_ANGLE == 65
DEFAULT_SERVO_GPIO == 17
DEFAULT_POWER_GPIO == 23
NumCandidates == 6
FRAME_MS == 30
ATTACK_MS == 40
RELEASE_MS == 120
SILENCE_GATE_DBFS == -45
DEFAULT_SAMPLERATE == 48000
DEFAULT_BLOCKSIZE == 256

Workers == 1..NumWorkers
Pids == 1..MaxPlays
LivePids == 1..MaxLive
Clips == {"good.mp3", "bad.mp3"}
LiveModes == {"normal", "fx", "other"}
CandidateOutcomes == {"alive", "exited"}

VARIABLES
    pc, op, clip, found, resp, did, allfail, lmode,
    play_lock, current_proc, servo_thread,
    procs, thr, plays_left,
    live_proc, lprocs, live_left,
    cfg, pi_connected, HAVE_SD, sox_installed,
    servo_cmd, power_line,
    args_mode, delay_blocks, q_delay, pushes, handed, sox_pipe, cb_write, cb_exc,
    m_geom, m_level, m_play, m_live,
    us_in, us_main, us_local, us_prev,
    angles_data, angles_left,
    f_stat, f_audio, _envelope_cache, env_ret, decodes, fs_left,
    trk_frame, trk_x, trk_y, trk_prev, trk_quiet, trk_n,
    rp_pc, rp_lead, rp_now, rp_origin, rp_t0, rp_idx, rp_stop, rp_log,
    sp_dev, sp_outcome, sp_i, sp_tried, sp_children, sp_result,
    fr_pc, fr_sr, fr_samples, fr_i, fr_rms,
    hist, hist_args, hist_seen,
    rn_pc, rn_idx, rn_stop, rn_proc, rn_late, rn_log,
    categories, file_categories, cat_resp

workerVars == <<pc, op, clip, found, resp, did, allfail, lmode>>
playVars == <<play_lock, current_proc, servo_thread, procs, thr, plays_left>>
liveVars == <<live_proc, lprocs, live_left>>
envVars == <<cfg, pi_connected, HAVE_SD, sox_installed>>
hwVars == <<servo_cmd, power_line>>
delayVars == <<args_mode, delay_blocks, q_delay, pushes, handed, sox_pipe, cb_write, cb_exc>>
mapVars == <<m_geom, m_level, m_play, m_live, us_in, us_main, us_local, us_prev>>
anglesVars == <<angles_data, angles_left>>
cacheVars == <<f_stat, f_audio, _envelope_cache, env_ret, decodes, fs_left>>
trackVars == <<trk_frame, trk_x, trk_y, trk_prev, trk_quiet, trk_n>>
replayVars == <<rp_pc, rp_lead, rp_now, rp_origin, rp_t0, rp_idx, rp_stop, rp_log>>
startVars == <<sp_dev, sp_outcome, sp_i, sp_tried, sp_children, sp_result>>
framesVars == <<fr_pc, fr_sr, fr_samples, fr_i, fr_rms>>
histVars == <<hist, hist_args, hist_seen>>
runnerVars == <<rn_pc, rn_idx, rn_stop, rn_proc, rn_late, rn_log>>
catVars == <<categories, file_categories, cat_resp>>
auxVars == <<startVars, framesVars, histVars, runnerVars, catVars>>
calcVars == <<mapVars, anglesVars, cacheVars, trackVars, replayVars, auxVars>>
vars == <<workerVars, playVars, liveVars, envVars, hwVars, delayVars, calcVars>>

\* ------------------------------------------------------------ pure helpers
\* the conversion of lines 300-302 without the clamp of line 301
angle_to_us_unclamped(angle100) ==
    SERVO_US_MIN + ((SERVO_US_MAX - SERVO_US_MIN) * angle100) \div 18000

\* angle in hundredths of a degree -> pulse width in microseconds
angle_to_us(angle100) ==
    LET a == IF angle100 < 0 THEN 0 ELSE IF angle100 > 18000 THEN 18000 ELSE angle100
    IN SERVO_US_MIN + ((SERVO_US_MAX - SERVO_US_MIN) * a) \div 18000

\* the file decodes (AudioSegment.from_file does not raise)
Decodable(c) == c = "good.mp3"

\* levels of the cached envelope, in percent
Envelope(c) == [k \in 1..EnvLen |-> IF k % 2 = 1 THEN 100 ELSE 0]

\* live_main.angle_to_us_local lines 2222-2224
angle_to_us_local(angle100, mn, mx) ==
    LET a == IF angle100 < 0 THEN 0 ELSE IF angle100 > 18000 THEN 18000 ELSE angle100
    IN mn + ((mx - mn) * a) \div 18000

\* the mapping of line 397 with the closed angle left out of the span
LevelAngleFromZero(closed, open_, e) == closed * 100 + open_ * e

\* closed + (open_ - closed) * e, in hundredths of a degree
LevelAngle(closed, open_, e) == closed * 100 + (open_ - closed) * e

\* live_main.process_block line 2352: closed + (open - closed) * y, in
\* hundredths of a degree for a level y in percent
LiveLevelAngle(closed, open_, y) == closed * 100 + (open_ - closed) * y

\* the test of line 355 without its servo_gpio part
is_servo_active_any_gpio == pi_connected

is_servo_active == pi_connected /\ cfg.servo_gpio # 0

PowerWired == pi_connected /\ cfg.power_gpio # 0

\* what power_on / power_off leave on the power line
power_write(level) == IF PowerWired THEN level ELSE power_line

\* the poll test of line 455 turned around
ProcRunningInverted(p) == p # 0 /\ procs[p] # "alive"

\* line 455: p and p.poll() is None
ProcRunning(p) == p # 0 /\ procs[p] = "alive"

\* a check that never sees the running live process
_live_running_never == FALSE

\* lines 2052-2054
_live_running == live_proc.p # 0 /\ lprocs[live_proc.p].st \in {"init", "streaming"}

ThreadAlive(i) == thr[i].pc \notin {"unborn", "done"}

NoThread == [pc |-> "unborn", idx |-> 0, stop |-> FALSE, file |-> "none", closed |-> 0, open_ |-> 0]

\* a thread that has returned or died of an exception
DoneThread == [pc |-> "done", idx |-> 0, stop |-> FALSE, file |-> "none", closed |-> 0, open_ |-> 0]

\* the thread t after its return; closed and open_ are the values it ran with
Finished(t) == [DoneThread EXCEPT !.closed = t.closed, !.open_ = t.open_]

NoProc == [p |-> 0, file |-> "none"]

\* lines 429-430
ClearedServoThread == [t |-> 0, stop |-> 0]

NoLive == [p |-> 0, mode |-> "none", args |-> 0]

NoLiveProc == [st |-> "unborn", mode |-> "none", servo_gpio |-> 0, power_gpio |-> 0, closed |-> 0, open_ |-> 0]

\* lines 435-450: index of the first candidate still alive after the wait, 0 = raise
RECURSIVE FirstAlive(_, _)
FirstAlive(outcome, i) ==
    IF i > NumCandidates THEN 0
    ELSE IF outcome[i] = "alive" THEN i
    ELSE FirstAlive(outcome, i + 1)

\* the last candidate is returned without the poll test of line 443
start_play_unchecked(outcome) ==
    IF FirstAlive(outcome, 1) # 0 THEN FirstAlive(outcome, 1) ELSE NumCandidates

start_play(outcome) == FirstAlive(outcome, 1)

\* ------------------------------------------------------------------- Init
CtlInit(plays, lives, sd) ==
    /\ pc = [r \in Workers |-> "idle"]
    /\ op = [r \in Workers |-> "none"]
    /\ clip = [r \in Workers |-> "none"]
    /\ found = [r \in Workers |-> 0]
    /\ resp = [r \in Workers |-> "none"]
    /\ did = [r \in Workers |-> <<>>]
    /\ allfail = [r \in Workers |-> FALSE]
    /\ lmode = [r \in Workers |-> "none"]
    /\ play_lock = [owner |-> 0, count |-> 0]
    /\ current_proc = NoProc
    /\ servo_thread = ClearedServoThread
    /\ procs = [i \in Pids |-> "unborn"]
    /\ thr = [i \in Pids |-> NoThread]
    /\ plays_left = plays
    /\ live_proc = NoLive
    /\ lprocs = [l \in LivePids |-> NoLiveProc]
    /\ live_left = lives
    /\ \E sg \in {0, DEFAULT_SERVO_GPIO}, pg \in {0, DEFAULT_POWER_GPIO} :
        cfg = [servo_gpio |-> sg, power_gpio |-> pg,
               closed_angle |-> DEFAULT_CLOSED_ANGLE, open_angle |-> DEFAULT_OPEN_ANGLE]
    /\ pi_connected \in BOOLEAN
    /\ HAVE_SD \in sd
    /\ servo_cmd = 0
    /\ power_line = 0

\* process_block has not been called
NoBlock == [n |-> 0, x |-> 0]

\* no live subprocess has run its audio callback
NoCallbacks ==
    /\ args_mode = "normal"
    /\ delay_blocks = 0
    /\ q_delay = <<>>
    /\ pushes = 0
    /\ handed = NoBlock
    /\ sox_pipe = "open"
    /\ cb_write = "none"
    /\ cb_exc = "none"

\* no level has been mapped to an angle, no angle to a pulse width
NoMap ==
    /\ m_geom = [closed |-> DEFAULT_CLOSED_ANGLE, open_ |-> DEFAULT_OPEN_ANGLE]
    /\ m_level = -1
    /\ m_play = -1
    /\ m_live = -1
    /\ us_in = 0
    /\ us_main = 0
    /\ us_local = 0
    /\ us_prev = [angle |-> 0, us |-> 0]

\* the request body of a request thread that has served no /angles request
NoData == [closed_angle |-> [kind |-> "none", t |-> 0],
           open_angle |-> [kind |-> "none", t |-> 0], oa |-> 0]

\* no /angles request is made
NoAngles ==
    /\ angles_data = [r \in Workers |-> NoData]
    /\ angles_left = 0

\* compute_envelope is not called
NoCache ==
    /\ f_stat = [st_mtime |-> 0, st_size |-> 0]
    /\ f_audio = 0
    /\ _envelope_cache = <<>>
    /\ env_ret = [env |-> -1, stat |-> [st_mtime |-> 0, st_size |-> 0]]
    /\ decodes = 0
    /\ fs_left = 0

\* no block is fed to the smoothing filter
NoTrack ==
    /\ trk_frame = 0
    /\ trk_x = 0
    /\ trk_y = 0
    /\ trk_prev = 0
    /\ trk_quiet = [n |-> 0, y0 |-> 0]
    /\ trk_n = 0

\* no motion thread is run against the clock
NoReplay ==
    /\ rp_pc = "none"
    /\ rp_lead = 0
    /\ rp_now = 0
    /\ rp_origin = 0
    /\ rp_t0 = 0
    /\ rp_idx = 0
    /\ rp_stop = FALSE
    /\ rp_log = <<>>

\* start_play is not run candidate by candidate
NoStart ==
    /\ sp_dev = ""
    /\ sp_outcome = <<>>
    /\ sp_i = 0
    /\ sp_tried = <<>>
    /\ sp_children = <<>>
    /\ sp_result = "none"

\* compute_envelope is not run frame by frame
NoFrames ==
    /\ fr_pc = "none"
    /\ fr_sr = 0
    /\ fr_samples = 0
    /\ fr_i = 0
    /\ fr_rms = <<>>

\* no live subprocess keeps a rolling history
NoHist ==
    /\ hist = <<>>
    /\ hist_args = [samplerate |-> 0, blocksize |-> 0]
    /\ hist_seen = <<>>

\* no motion thread is followed statement by statement
NoRunner ==
    /\ rn_pc = "none"
    /\ rn_idx = 0
    /\ rn_stop = FALSE
    /\ rn_proc = "none"
    /\ rn_late = 0
    /\ rn_log = <<>>

\* the category data of DEFAULT_CONFIG, no category request answered
NoCat ==
    /\ categories = <<>>
    /\ file_categories = [fn \in {} |-> <<>>]
    /\ cat_resp = "none"

NoAux == NoStart /\ NoFrames /\ NoHist /\ NoRunner /\ NoCat

NoOld == NoMap /\ NoAngles /\ NoCache /\ NoTrack /\ NoReplay

NoCalc == NoOld /\ NoAux

\* the server after start-up, serving playback requests
Init == CtlInit(MaxPlays, 0, {TRUE}) /\ sox_installed = TRUE /\ NoCallbacks /\ NoCalc

\* the server after start-up on a fully wired machine, serving live and
\* playback requests
LiveCtlInit ==
    /\ CtlInit(MaxLivePlays, MaxCtlLive, {TRUE})
    /\ pi_connected
    /\ cfg.servo_gpio = DEFAULT_SERVO_GPIO
    /\ cfg.power_gpio = DEFAULT_POWER_GPIO
    /\ sox_installed = TRUE
    /\ NoCallbacks
    /\ NoCalc

\* the server after start-up, serving live requests only; SoX may be missing
LiveInit0 ==
    /\ CtlInit(0, MaxLive, BOOLEAN)
    /\ sox_installed \in BOOLEAN
    /\ NoCallbacks
    /\ NoCalc

\* --------------------------------------------------------------- requests
\* a new request is served by the first idle request thread
Serves(r) == pc[r] = "idle" /\ \A q \in Workers : q < r => pc[q] # "idle"

Finish(r, answer) ==
    /\ pc' = [pc EXCEPT ![r] = "ret"]
    /\ resp' = [resp EXCEPT ![r] = answer]

\* the response has been sent; the request thread serves the next request
Return(r) ==
    /\ pc[r] = "ret"
    /\ pc' = [pc EXCEPT ![r] = "idle"]
    /\ op' = [op EXCEPT ![r] = "none"]
    /\ clip' = [clip EXCEPT ![r] = "none"]
    /\ found' = [found EXCEPT ![r] = 0]
    /\ resp' = [resp EXCEPT ![r] = "none"]
    /\ did' = [did EXCEPT ![r] = <<>>]
    /\ allfail' = [allfail EXCEPT ![r] = FALSE]
    /\ lmode' = [lmode EXCEPT ![r] = "none"]
    /\ UNCHANGED <<playVars, liveVars, envVars, delayVars, calcVars, hwVars>>

\* a /play that gives up when the envelope cannot be computed
PlayRequestStrict(r) ==
    /\ Serves(r)
    /\ plays_left > 0
    /\ \E c \in Clips :
        /\ clip' = [clip EXCEPT ![r] = c]
        /\ op' = [op EXCEPT ![r] = "play"]
        /\ IF Decodable(c)
           THEN /\ pc' = [pc EXCEPT ![r] = "lock"]
                /\ UNCHANGED resp
           ELSE Finish(r, "decode_failed")
    /\ plays_left' = plays_left - 1
    /\ UNCHANGED <<found, did, allfail, lmode>>
    /\ UNCHANGED <<play_lock, current_proc, servo_thread, procs, thr>>
    /\ UNCHANGED <<liveVars, envVars, delayVars, calcVars, hwVars>>

\* /play, lines 2166-2176: the file is resolved and its envelope computed
\* before the lock is taken; a decode failure only leaves precomputed = None
PlayRequest(r) ==
    /\ Serves(r)
    /\ plays_left > 0
    /\ \E c \in Clips :
        /\ clip' = [clip EXCEPT ![r] = c]
        /\ op' = [op EXCEPT ![r] = "play"]
        /\ pc' = [pc EXCEPT ![r] = "lock"]
    /\ plays_left' = plays_left - 1
    /\ UNCHANGED <<found, resp, did, allfail, lmode>>
    /\ UNCHANGED <<play_lock, current_proc, servo_thread, procs, thr>>
    /\ UNCHANGED <<liveVars, envVars, delayVars, calcVars, hwVars>>

\* /stop, line 2195
StopRequest(r) ==
    /\ Serves(r)
    /\ op' = [op EXCEPT ![r] = "stop"]
    /\ pc' = [pc EXCEPT ![r] = "lock"]
    /\ UNCHANGED <<clip, found, resp, did, allfail, lmode>>
    /\ UNCHANGED <<playVars, liveVars, envVars, delayVars, calcVars, hwVars>>

\* with play_lock (lines 2178, 2196), stop_current lines 453-459 under the
\* re-entrant lock, then stop_servo lines 414-415
SCTerm(r) ==
    /\ pc[r] = "lock"
    /\ play_lock.owner = 0
    /\ LET p == current_proc.p
           running == p # 0 /\ procs[p] = "alive"
           s == servo_thread.stop
       IN /\ \E raised \in BOOLEAN :
               /\ raised => ProcRunning(p)
               /\ procs' = IF ProcRunning(p) /\ ~raised
                           THEN [procs EXCEPT ![p] = "dead"] ELSE procs
          /\ found' = [found EXCEPT ![r] = IF running THEN p ELSE 0]
          /\ thr' = IF s # 0 /\ ThreadAlive(s) THEN [thr EXCEPT ![s].stop = TRUE] ELSE thr
          /\ did' = [did EXCEPT ![r] =
                        (IF ProcRunning(p) THEN <<"terminate">> ELSE <<>>)
                        \o (IF s # 0 THEN <<"set_stop">> ELSE <<>>)]
    /\ current_proc' = NoProc
    /\ play_lock' = [owner |-> r, count |-> 2]
    /\ pc' = [pc EXCEPT ![r] = "sc_join"]
    /\ UNCHANGED <<op, clip, resp, allfail, lmode, servo_thread, plays_left>>
    /\ UNCHANGED <<liveVars, envVars, delayVars, calcVars, hwVars>>

\* a join without timeout: it returns only when the thread has finished
SCJoinForever(r) ==
    /\ pc[r] = "sc_join"
    /\ IF servo_thread.t = 0 THEN TRUE ELSE ~ThreadAlive(servo_thread.t)
    /\ did' = did
    /\ pc' = [pc EXCEPT ![r] = "sc_park"]
    /\ UNCHANGED <<op, clip, found, resp, allfail, lmode>>
    /\ UNCHANGED <<playVars, liveVars, envVars, delayVars, calcVars, hwVars>>

\* stop_servo lines 416-418: join returns when the thread has finished or
\* when the timeout has elapsed
SCJoin(r) ==
    /\ pc[r] = "sc_join"
    /\ LET t == servo_thread.t
       IN \/ /\ IF t = 0 THEN TRUE ELSE ~ThreadAlive(t)
             /\ did' = did
          \/ /\ IF t = 0 THEN FALSE ELSE ThreadAlive(t)
             /\ did' = [did EXCEPT ![r] = Append(@, "join_timeout")]
    /\ pc' = [pc EXCEPT ![r] = "sc_park"]
    /\ UNCHANGED <<op, clip, found, resp, allfail, lmode>>
    /\ UNCHANGED <<playVars, liveVars, envVars, delayVars, calcVars, hwVars>>

\* stop_servo lines 429-431 and the return of stop_current
SCFinish(r) ==
    /\ servo_thread' = ClearedServoThread
    /\ power_line' = power_write(0)
    /\ play_lock' = [play_lock EXCEPT !.count = @ - 1]
    /\ pc' = [pc EXCEPT ![r] = "sc_done"]

\* stop_servo lines 419-425: the closed-angle write; when it raises, the
\* except clause skips the pulse-0 write
SCPark(r) ==
    /\ pc[r] = "sc_park"
    /\ IF pi_connected /\ cfg.servo_gpio # 0
       THEN /\ servo_cmd' = angle_to_us(cfg.closed_angle * 100)
            /\ \/ /\ pc' = [pc EXCEPT ![r] = "sc_zero"]
                  /\ did' = [did EXCEPT ![r] = Append(@, "closed")]
                  /\ UNCHANGED <<servo_thread, power_line, play_lock>>
               \/ /\ did' = [did EXCEPT ![r] =
                                Append(@, "closed") \o
                                (IF PowerWired THEN <<"power_off">> ELSE <<>>)]
                  /\ SCFinish(r)
       ELSE /\ servo_cmd' = servo_cmd
            /\ did' = [did EXCEPT ![r] =
                          @ \o (IF PowerWired THEN <<"power_off">> ELSE <<>>)]
            /\ SCFinish(r)
    /\ UNCHANGED <<op, clip, found, resp, allfail, lmode>>
    /\ UNCHANGED <<current_proc, procs, thr, plays_left>>
    /\ UNCHANGED <<liveVars, envVars, delayVars, calcVars>>

\* stop_servo lines 426-431: the pulse-0 write (swallowed when it raises)
SCZero(r) ==
    /\ pc[r] = "sc_zero"
    /\ servo_cmd' = 0
    /\ did' = [did EXCEPT ![r] =
                  Append(@, "zero") \o (IF PowerWired THEN <<"power_off">> ELSE <<>>)]
    /\ SCFinish(r)
    /\ UNCHANGED <<op, clip, found, resp, allfail, lmode>>
    /\ UNCHANGED <<current_proc, procs, thr, plays_left>>
    /\ UNCHANGED <<liveVars, envVars, delayVars, calcVars>>

\* a /stop that reports an error when it found nothing to stop
StopReturnStrict(r) ==
    /\ pc[r] = "sc_done"
    /\ op[r] = "stop"
    /\ play_lock' = [owner |-> 0, count |-> 0]
    /\ Finish(r, IF found[r] = 0 THEN "not_running" ELSE "ok")
    /\ did' = [did EXCEPT ![r] = <<>>]
    /\ UNCHANGED <<op, clip, found, allfail, lmode>>
    /\ UNCHANGED <<current_proc, servo_thread, procs, thr, plays_left>>
    /\ UNCHANGED <<liveVars, envVars, delayVars, calcVars, hwVars>>

\* /stop, lines 2196-2198
StopReturn(r) ==
    /\ pc[r] = "sc_done"
    /\ op[r] = "stop"
    /\ play_lock' = [owner |-> 0, count |-> 0]
    /\ Finish(r, "ok")
    /\ did' = [did EXCEPT ![r] = <<>>]
    /\ UNCHANGED <<op, clip, found, allfail, lmode>>
    /\ UNCHANGED <<current_proc, servo_thread, procs, thr, plays_left>>
    /\ UNCHANGED <<liveVars, envVars, delayVars, calcVars, hwVars>>

\* /play, line 2180
PlayPowerOn(r) ==
    /\ pc[r] = "sc_done"
    /\ op[r] = "play"
    /\ power_line' = power_write(1)
    /\ pc' = [pc EXCEPT ![r] = "start"]
    /\ did' = [did EXCEPT ![r] = <<>>]
    /\ UNCHANGED <<op, clip, found, resp, allfail, lmode>>
    /\ UNCHANGED <<playVars, liveVars, envVars, delayVars, calcVars, servo_cmd>>

\* servo_open_close_by_envelope lines 371-411 as called at line 2185: the
\* thread is launched when the servo is active and the envelope is there;
\* with precomputed = None the second compute_envelope raises again and the
\* caller logs it
LaunchMotion(r, pid) ==
    IF is_servo_active /\ Decodable(clip[r])
    THEN /\ servo_thread' = [t |-> pid, stop |-> pid]
         /\ thr' = [thr EXCEPT ![pid] =
                       [pc |-> "replay", idx |-> 0, stop |-> FALSE, file |-> clip[r],
                        closed |-> cfg.closed_angle, open_ |-> cfg.open_angle]]
    ELSE UNCHANGED <<servo_thread, thr>>

\* /play lines 2181-2188 with start_play lines 434-450: every candidate that
\* exits within the wait or fails to spawn is skipped
PlayStart(r) ==
    /\ pc[r] = "start"
    /\ \E outcome \in [1..NumCandidates -> CandidateOutcomes] :
        LET dev == start_play(outcome)
            pid == CHOOSE i \in Pids : procs[i] = "unborn"
        IN /\ allfail' = [allfail EXCEPT ![r] = \A i \in 1..NumCandidates : outcome[i] # "alive"]
           /\ IF dev # 0
              THEN /\ procs' = [procs EXCEPT ![pid] = "alive"]
                   /\ current_proc' = [p |-> pid, file |-> clip[r]]
                   /\ LaunchMotion(r, pid)
                   /\ Finish(r, "ok")
              ELSE /\ pc' = [pc EXCEPT ![r] = "except"]
                   /\ UNCHANGED <<procs, current_proc, servo_thread, thr, resp>>
    /\ play_lock' = [owner |-> 0, count |-> 0]
    /\ UNCHANGED <<op, clip, found, did, lmode, plays_left>>
    /\ UNCHANGED <<liveVars, envVars, delayVars, calcVars, hwVars>>

\* /play lines 2189-2192
PlayExcept(r) ==
    /\ pc[r] = "except"
    /\ power_line' = power_write(0)
    /\ Finish(r, "start_failed")
    /\ UNCHANGED <<op, clip, found, did, allfail, lmode>>
    /\ UNCHANGED <<playVars, liveVars, envVars, delayVars, calcVars, servo_cmd>>

\* ------------------------------------------------ the playback process
\* mpg123 reaches the end of the clip
ProcExit(i) ==
    /\ procs[i] = "alive"
    /\ procs' = [procs EXCEPT ![i] = "dead"]
    /\ UNCHANGED <<workerVars, liveVars, envVars, delayVars, calcVars, hwVars>>
    /\ UNCHANGED <<play_lock, current_proc, servo_thread, thr, plays_left>>

\* ---------------------------------------------------- the motion thread
ThreadFrame == <<workerVars, liveVars, envVars, delayVars, calcVars>>

\* _runner lines 391-398: the closed-angle write before the replay (idx 0),
\* then one envelope sample per step unless the stop flag is set; an
\* exception of set_angle is not caught here and ends the thread
ThreadReplay(i) ==
    /\ thr[i].pc = "replay"
    /\ IF thr[i].idx = 0
       THEN /\ servo_cmd' = angle_to_us(thr[i].closed * 100)
            /\ \/ thr' = [thr EXCEPT ![i].idx = 1]
               \/ thr' = [thr EXCEPT ![i] = Finished(@)]
       ELSE IF thr[i].stop \/ thr[i].idx > EnvLen
       THEN /\ thr' = [thr EXCEPT ![i].pc = "poll"]
            /\ UNCHANGED servo_cmd
       ELSE /\ servo_cmd' = angle_to_us(LevelAngle(thr[i].closed, thr[i].open_,
                                                   Envelope(thr[i].file)[thr[i].idx]))
            /\ \/ thr' = [thr EXCEPT ![i].idx = @ + 1]
               \/ thr' = [thr EXCEPT ![i] = Finished(@)]
    /\ UNCHANGED <<ThreadFrame, power_line>>
    /\ UNCHANGED <<play_lock, current_proc, servo_thread, procs, plays_left>>

\* a poll loop that does not wait for the process or the stop flag
ThreadParkEarly(i) ==
    /\ thr[i].pc = "poll"
    /\ servo_cmd' = angle_to_us(thr[i].closed * 100)
    /\ \/ /\ thr' = [thr EXCEPT ![i].pc = "zero"]
          /\ UNCHANGED power_line
       \/ /\ thr' = [thr EXCEPT ![i] = Finished(@)]
          /\ power_line' = power_write(0)
    /\ UNCHANGED ThreadFrame
    /\ UNCHANGED <<play_lock, current_proc, servo_thread, procs, plays_left>>

\* _runner lines 399-403: the poll loop ends when the stop flag is set or
\* the playback process has ended, then the closed-angle write; when it
\* raises, lines 405-407 skip the pulse-0 write
ThreadPark(i) ==
    /\ thr[i].pc = "poll"
    /\ thr[i].stop \/ procs[i] # "alive"
    /\ servo_cmd' = angle_to_us(thr[i].closed * 100)
    /\ \/ /\ thr' = [thr EXCEPT ![i].pc = "zero"]
          /\ UNCHANGED power_line
       \/ /\ thr' = [thr EXCEPT ![i] = Finished(@)]
          /\ power_line' = power_write(0)
    /\ UNCHANGED ThreadFrame
    /\ UNCHANGED <<play_lock, current_proc, servo_thread, procs, plays_left>>

\* _runner lines 404-407
ThreadZero(i) ==
    /\ thr[i].pc = "zero"
    /\ servo_cmd' = 0
    /\ power_line' = power_write(0)
    /\ thr' = [thr EXCEPT ![i] = Finished(@)]
    /\ UNCHANGED ThreadFrame
    /\ UNCHANGED <<play_lock, current_proc, servo_thread, procs, plays_left>>

\* -------------------------------------------------------- live requests
\* /live-start lines 2084-2091
LiveStartRequest(r) ==
    /\ Serves(r)
    /\ live_left > 0
    /\ live_left' = live_left - 1
    /\ op' = [op EXCEPT ![r] = "live_start"]
    /\ \E m \in LiveModes :
        /\ lmode' = [lmode EXCEPT ![r] = m]
        /\ IF ~HAVE_SD THEN Finish(r, "no_sounddevice")
           ELSE IF _live_running THEN Finish(r, "already_running")
           ELSE IF m \notin {"normal", "fx"} THEN Finish(r, "bad_mode")
           ELSE /\ pc' = [pc EXCEPT ![r] = "spawn"]
                /\ UNCHANGED resp
    /\ UNCHANGED <<clip, found, did, allfail>>
    /\ UNCHANGED <<live_proc, lprocs, playVars, envVars, delayVars, calcVars, hwVars>>

\* /live-start lines 2145-2157; found is the process Popen returned
LiveSpawn(r) ==
    /\ pc[r] = "spawn"
    /\ \/ LET l == CHOOSE x \in LivePids : lprocs[x].st = "unborn"
          IN /\ lprocs' = [lprocs EXCEPT ![l] =
                              [st |-> "init", mode |-> lmode[r],
                               servo_gpio |-> cfg.servo_gpio,
                               power_gpio |-> cfg.power_gpio,
                               closed |-> cfg.closed_angle, open_ |-> cfg.open_angle]]
             /\ live_proc' = [p |-> l, mode |-> lmode[r], args |-> l]
             /\ found' = [found EXCEPT ![r] = l]
             /\ Finish(r, "ok")
       \/ /\ Finish(r, "spawn_failed")
          /\ UNCHANGED <<live_proc, lprocs, found>>
    /\ UNCHANGED <<op, clip, did, allfail, lmode, live_left>>
    /\ UNCHANGED <<playVars, envVars, delayVars, calcVars, hwVars>>

\* /live-stop lines 2067-2074: terminate, wait, kill; found is the process
\* the test of line 2068 found running. SIGTERM ends the subprocess where it
\* stands (live_main installs no handler), so its finally clause does not run
LiveStopRequest(r) ==
    /\ Serves(r)
    /\ op' = [op EXCEPT ![r] = "live_stop"]
    /\ pc' = [pc EXCEPT ![r] = "live_clear"]
    /\ found' = [found EXCEPT ![r] = IF _live_running THEN live_proc.p ELSE 0]
    /\ lprocs' = IF _live_running
                 THEN [lprocs EXCEPT ![live_proc.p].st = "dead"] ELSE lprocs
    /\ UNCHANGED <<clip, resp, did, allfail, lmode>>
    /\ UNCHANGED <<live_proc, live_left, playVars, envVars, delayVars, calcVars, hwVars>>

\* /live-stop lines 2075-2080
LiveStopClear(r) ==
    /\ pc[r] = "live_clear"
    /\ live_proc' = NoLive
    /\ power_line' = power_write(0)
    /\ Finish(r, "ok")
    /\ UNCHANGED <<op, clip, found, did, allfail, lmode>>
    /\ UNCHANGED <<lprocs, live_left, playVars, envVars, delayVars, calcVars, servo_cmd>>

\* --------------------------------------------------- the live subprocess
LiveFrame == <<workerVars, playVars, envVars, delayVars, calcVars, live_proc, live_left>>

\* live_main lines 2270-2283 and 2316-2337: GPIO init, or exit 2 without
\* pigpio; any other exception of the init leaves pi_local = None, after which
\* the subprocess does not touch the GPIOs (raised names the call that
\* raised). In fx mode SoX is spawned next: a missing binary runs close_out
\* and exits 4, any other exception of Popen is not caught and ends the
\* subprocess where it stands
LiveInit(l) ==
    /\ lprocs[l].st = "init"
    /\ LET sg == lprocs[l].servo_gpio
           pg == lprocs[l].power_gpio
       IN IF (sg # 0 \/ pg # 0) /\ ~pi_connected
          THEN /\ lprocs' = [lprocs EXCEPT ![l].st = "dead"]
               /\ UNCHANGED hwVars
          ELSE \E raised \in {"none", "pi", "power", "servo"},
                  sox \in {"ok", "notfound", "oserror"} :
                  /\ (sg = 0 /\ pg = 0) => raised = "none"
                  /\ raised = "power" => pg # 0
                  /\ raised = "servo" => sg # 0
                  /\ lprocs[l].mode # "fx" => sox = "ok"
                  /\ (lprocs[l].mode = "fx" /\ sox = "ok") => sox_installed
                  /\ sox = "notfound" => ~sox_installed
                  /\ LET sg1 == IF raised = "none" THEN sg ELSE 0
                         pg1 == IF raised = "none" THEN pg ELSE 0
                         pw1 == IF pg # 0 /\ raised # "pi" THEN 1 ELSE power_line
                         sv1 == IF sg # 0 /\ raised \in {"none", "servo"}
                                THEN angle_to_us(lprocs[l].closed * 100) ELSE servo_cmd
                     IN /\ lprocs' = [lprocs EXCEPT ![l] =
                                          [@ EXCEPT !.st = IF sox = "ok" THEN "streaming" ELSE "sox_failed",
                                                    !.servo_gpio = sg1,
                                                    !.power_gpio = pg1]]
                        /\ power_line' = IF sox = "notfound" /\ pg1 # 0 THEN 0 ELSE pw1
                        /\ servo_cmd' = IF sox = "notfound" /\ sg1 # 0 THEN 0 ELSE sv1
    /\ UNCHANGED LiveFrame

\* live_main.process_block lines 2352-2353 through set_angle lines 2292-2294
LiveCallback(l) ==
    /\ lprocs[l].st = "streaming"
    /\ lprocs[l].servo_gpio # 0
    /\ \E y \in {0, 100} :
        servo_cmd' = angle_to_us(LiveLevelAngle(lprocs[l].closed, lprocs[l].open_, y))
    /\ UNCHANGED <<LiveFrame, lprocs, power_line>>

\* live_main lines 2425-2439: the stream fails, finally runs close_out
LiveFail(l) ==
    /\ lprocs[l].st = "streaming"
    /\ lprocs' = [lprocs EXCEPT ![l].st = "dead"]
    /\ servo_cmd' = IF lprocs[l].servo_gpio # 0 THEN 0 ELSE servo_cmd
    /\ power_line' = IF lprocs[l].power_gpio # 0 THEN 0 ELSE power_line
    /\ UNCHANGED LiveFrame

\* ------------------------------------- the audio callback of live_main
BlockLevels == {0, 50, 100}

\* a deque that keeps every element
deque_append_unbounded(q, m, b) == Append(q, b)

\* deque.append on a deque(maxlen = m): the oldest element is dropped when
\* the deque is full
deque_append(q, m, b) == IF Len(q) < m THEN Append(q, b) ELSE Append(Tail(q), b)

\* live_main lines 2312-2314 with the servo hooked up: the subprocess has
\* parsed its arguments and opened the stream
DelayInit ==
    /\ CtlInit(0, 0, {TRUE})
    /\ sox_installed = TRUE
    /\ pi_connected
    /\ cfg.servo_gpio = DEFAULT_SERVO_GPIO
    /\ cfg.power_gpio = DEFAULT_POWER_GPIO
    /\ args_mode \in {"normal", "fx"}
    /\ delay_blocks \in 0..MaxDelay
    /\ q_delay = <<>>
    /\ pushes = 0
    /\ handed = NoBlock
    /\ sox_pipe = "open"
    /\ cb_write = "none"
    /\ cb_exc = "none"
    /\ NoCalc

\* what the write of line 2364 can do: succeed, raise BrokenPipeError, raise
\* another exception; none when the callback does not write (normal mode)
WriteOutcomes == {"none", "ok", "broken_pipe", "oserror"}

\* a callback in which every exception of the write leaves the callback
WriteRaisesAny(wr) == wr \in {"broken_pipe", "oserror"}

\* lines 2363-2366: only BrokenPipeError is caught
WriteRaises(wr) == wr = "oserror"

\* callback lines 2355-2382: block number pushes + 1 arrives; handed is the
\* block passed to process_block in this callback, NoBlock when process_block
\* is not called. In fx mode the block is first written to the pipe of SoX
\* (wr; a pipe that has broken stays broken); process_block ends with the
\* servo write of line 2353, which is in no try block (sv). cb_exc names the
\* statement whose exception left the callback; the stream calls a callback
\* that raised no more
DelayCallback ==
    /\ pushes < MaxBlocks
    /\ cb_exc = "none"
    /\ pushes' = pushes + 1
    /\ \E x \in BlockLevels, wr \in WriteOutcomes, sv \in {"ok", "raise"} :
        LET mono == [n |-> pushes + 1, x |-> x]
            maxlen == IF delay_blocks > 0 THEN delay_blocks ELSE 1
        IN /\ (wr = "none") = (args_mode # "fx")
           /\ sox_pipe = "broken" => wr \in {"none", "broken_pipe"}
           /\ cb_write' = wr
           /\ sox_pipe' = IF wr = "broken_pipe" THEN "broken" ELSE sox_pipe
           /\ IF WriteRaises(wr)
              THEN /\ sv = "ok"
                   /\ q_delay' = q_delay
                   /\ handed' = NoBlock
                   /\ cb_exc' = "write"
              ELSE /\ IF args_mode = "fx" /\ delay_blocks > 0
                      THEN /\ q_delay' = deque_append(q_delay, maxlen, mono)
                           /\ handed' = IF Len(q_delay') = maxlen THEN q_delay'[1] ELSE NoBlock
                      ELSE /\ q_delay' = q_delay
                           /\ handed' = mono
                   /\ sv = "raise" => handed' # NoBlock
                   /\ cb_exc' = IF sv = "raise" THEN "servo" ELSE "none"
    /\ UNCHANGED <<args_mode, delay_blocks>>
    /\ UNCHANGED <<workerVars, playVars, liveVars, envVars, hwVars, calcVars>>

DelayNext == DelayCallback

DelaySpec == DelayInit /\ [][DelayNext]_vars

\* ------------------------------------------------------------------- Next
Next ==
    \/ \E r \in Workers : PlayRequest(r)
    \/ \E r \in Workers : StopRequest(r)
    \/ \E r \in Workers : SCTerm(r)
    \/ \E r \in Workers : SCJoin(r)
    \/ \E r \in Workers : SCPark(r)
    \/ \E r \in Workers : SCZero(r)
    \/ \E r \in Workers : StopReturn(r)
    \/ \E r \in Workers : PlayPowerOn(r)
    \/ \E r \in Workers : PlayStart(r)
    \/ \E r \in Workers : PlayExcept(r)
    \/ \E r \in Workers : Return(r)
    \/ \E i \in Pids : ProcExit(i)
    \/ \E i \in Pids : ThreadReplay(i)
    \/ \E i \in Pids : ThreadPark(i)
    \/ \E i \in Pids : ThreadZero(i)

Spec == Init /\ [][Next]_vars

\* the server on a fully wired machine, one /play and any number of /stop
StopInit ==
    /\ CtlInit(MaxLivePlays, 0, {TRUE})
    /\ pi_connected
    /\ cfg.servo_gpio = DEFAULT_SERVO_GPIO
    /\ cfg.power_gpio = DEFAULT_POWER_GPIO
    /\ sox_installed = TRUE
    /\ NoCallbacks
    /\ NoCalc

\* a request thread inside stop_current goes on running: the join of line
\* 418 has a timeout and the sleep of line 425 is finite. Nothing is assumed
\* of the motion thread or of the playback process
StopFairness ==
    \A r \in Workers :
        /\ WF_vars(SCJoin(r))
        /\ WF_vars(SCPark(r))
        /\ WF_vars(SCZero(r))

FairStopSpec == StopInit /\ [][Next]_vars /\ StopFairness

LiveCtlNext ==
    \/ Next
    \/ \E r \in Workers : LiveStartRequest(r)
    \/ \E r \in Workers : LiveSpawn(r)
    \/ \E r \in Workers : LiveStopRequest(r)
    \/ \E r \in Workers : LiveStopClear(r)
    \/ \E l \in LivePids : LiveInit(l)
    \/ \E l \in LivePids : LiveCallback(l)
    \/ \E l \in LivePids : LiveFail(l)

LiveCtlSpec == LiveCtlInit /\ [][LiveCtlNext]_vars

LiveNext ==
    \/ \E r \in Workers : LiveStartRequest(r)
    \/ \E r \in Workers : LiveSpawn(r)
    \/ \E r \in Workers : LiveStopRequest(r)
    \/ \E r \in Workers : LiveStopClear(r)
    \/ \E r \in Workers : Return(r)
    \/ \E l \in LivePids : LiveInit(l)
    \/ \E l \in LivePids : LiveCallback(l)
    \/ \E l \in LivePids : LiveFail(l)

LiveSpec == LiveInit0 /\ [][LiveNext]_vars

\* ------------------------------- level -> angle -> pulse width, on their own
\* angles in degrees a geometry is built from; /angles stores integers
GeomAngles == {0, 5, 30, 65, 90, 180}
Geometries == {g \in [closed : GeomAngles, open_ : GeomAngles] : g.closed <= g.open_}

\* envelope levels in percent
MapLevels == {0, 25, 50, 100}

\* angles in hundredths of a degree handed to the conversions
ProbeAngles == {-9000, -1, 0, 1, 500, 6500, 9000, 17999, 18000, 18001, 36000}

MapInit ==
    /\ CtlInit(0, 0, {TRUE})
    /\ sox_installed = TRUE
    /\ NoCallbacks
    /\ NoAngles /\ NoCache /\ NoTrack /\ NoReplay /\ NoAux
    /\ m_geom \in Geometries
    /\ m_level = -1
    /\ m_play = -1
    /\ m_live = -1
    /\ us_in = 0
    /\ us_main = 0
    /\ us_local = 0
    /\ us_prev = [angle |-> 0, us |-> 0]

MapFrame == <<workerVars, playVars, liveVars, envVars, hwVars, delayVars,
              anglesVars, cacheVars, trackVars, replayVars, auxVars>>

\* _runner line 397 and process_block line 2352 map one level
MapLevel ==
    /\ \E e \in MapLevels :
        /\ m_level' = e
        /\ m_play' = LevelAngle(m_geom.closed, m_geom.open_, e)
        /\ m_live' = LiveLevelAngle(m_geom.closed, m_geom.open_, e)
    /\ UNCHANGED <<m_geom, us_in, us_main, us_local, us_prev, MapFrame>>

\* set_angle lines 387-388 and 2292-2294 convert one angle; us_prev keeps the
\* conversion before this one (us = 0: there was none)
ConvertAngle ==
    /\ \E a \in ProbeAngles :
        /\ us_in' = a
        /\ us_main' = angle_to_us(a)
        /\ us_local' = angle_to_us_local(a, SERVO_US_MIN, SERVO_US_MAX)
    /\ us_prev' = [angle |-> us_in, us |-> us_main]
    /\ UNCHANGED <<m_geom, m_level, m_play, m_live, MapFrame>>

MapNext == MapLevel \/ ConvertAngle

MapSpec == MapInit /\ [][MapNext]_vars

\* ------------------------------------------------------------ POST /angles
\* values of a JSON field, t in tenths: a number (65 is t = 650, 10.5 is
\* t = 105), a string holding that literal ("65", "12.5"), or a missing field
AngleInputs ==
    {[kind |-> "num", t |-> t] : t \in {-5, 100, 105, 650, 1809, 1810}}
    \cup {[kind |-> "text", t |-> t] : t \in {650, 125}}
    \cup {[kind |-> "none", t |-> 0]}

\* Python's int(): a number is truncated toward zero, a string must be an
\* integer literal, None raises
py_int(v) ==
    IF v.kind = "num"
    THEN [ok |-> TRUE, n |-> IF v.t >= 0 THEN v.t \div 10 ELSE -((-v.t) \div 10)]
    ELSE IF v.kind = "text" /\ v.t % 10 = 0
         THEN [ok |-> TRUE, n |-> v.t \div 10]
         ELSE [ok |-> FALSE, n |-> 0]

\* the server after start-up, serving /angles requests
AnglesInit ==
    /\ CtlInit(0, 0, {TRUE})
    /\ pi_connected
    /\ cfg.servo_gpio = DEFAULT_SERVO_GPIO
    /\ cfg.power_gpio = DEFAULT_POWER_GPIO
    /\ sox_installed = TRUE
    /\ NoCallbacks
    /\ NoMap /\ NoCache /\ NoTrack /\ NoReplay /\ NoAux
    /\ angles_data = [r \in Workers |-> NoData]
    /\ angles_left = MaxAngles

AnglesFrame == <<playVars, liveVars, hwVars, delayVars, mapVars, cacheVars, trackVars,
                 replayVars, auxVars>>

\* angles_post lines 1807-1815: parse and validate, answer 400 or store the
\* closed angle
AnglesRequest(r) ==
    /\ Serves(r)
    /\ angles_left > 0
    /\ angles_left' = angles_left - 1
    /\ op' = [op EXCEPT ![r] = "angles"]
    /\ \E c \in AngleInputs, o \in AngleInputs :
        LET ca == py_int(c)
            oa == py_int(o)
            inrange == /\ ca.ok /\ oa.ok
                       /\ 0 <= ca.n /\ ca.n <= 180 /\ 0 <= oa.n /\ oa.n <= 180
        IN /\ angles_data' = [angles_data EXCEPT ![r] =
                [closed_angle |-> c, open_angle |-> o,
                 oa |-> IF inrange /\ oa.n >= ca.n THEN oa.n ELSE 0]]
           /\ IF ~inrange
              THEN Finish(r, "bad_angles") /\ cfg' = cfg
              ELSE IF oa.n < ca.n
                   THEN Finish(r, "bad_order") /\ cfg' = cfg
                   ELSE /\ cfg' = [cfg EXCEPT !.closed_angle = ca.n]
                        /\ pc' = [pc EXCEPT ![r] = "set_open"]
                        /\ resp' = resp
    /\ UNCHANGED <<clip, found, did, allfail, lmode>>
    /\ UNCHANGED <<pi_connected, HAVE_SD, sox_installed, AnglesFrame>>

\* angles_post lines 1816-1818: store the open angle, save, answer
AnglesSetOpen(r) ==
    /\ pc[r] = "set_open"
    /\ cfg' = [cfg EXCEPT !.open_angle = angles_data[r].oa]
    /\ Finish(r, "ok")
    /\ UNCHANGED <<op, clip, found, did, allfail, lmode, anglesVars>>
    /\ UNCHANGED <<pi_connected, HAVE_SD, sox_installed, AnglesFrame>>

AnglesNext ==
    \/ \E r \in Workers : AnglesRequest(r)
    \/ \E r \in Workers : AnglesSetOpen(r)
    \/ \E r \in Workers : Return(r)

AnglesSpec == AnglesInit /\ [][AnglesNext]_vars

\* the server on a fully wired machine, serving one /play, /stop and /angles
GeomInit ==
    /\ CtlInit(MaxLivePlays, 0, {TRUE})
    /\ pi_connected
    /\ cfg.servo_gpio = DEFAULT_SERVO_GPIO
    /\ cfg.power_gpio = DEFAULT_POWER_GPIO
    /\ sox_installed = TRUE
    /\ NoCallbacks
    /\ NoMap /\ NoCache /\ NoTrack /\ NoReplay /\ NoAux
    /\ angles_data = [r \in Workers |-> NoData]
    /\ angles_left = MaxGeomAngles

GeomNext ==
    \/ Next
    \/ \E r \in Workers : AnglesRequest(r)
    \/ \E r \in Workers : AnglesSetOpen(r)

GeomSpec == GeomInit /\ [][GeomNext]_vars

\* ------------------------------------------------------ the envelope cache
\* time between two writes of the file, in tenths of a second
WriteDelays == {3, 10}
FileSizes == {1, 2}

\* _env_key lines 305-307 for the one path: (int(st_mtime), st_size), with
\* st_mtime in tenths of a second
_env_key == <<f_stat.st_mtime \div 10, f_stat.st_size>>

\* the value env_ret holds before the first call
NoEnvelope == [env |-> -1, stat |-> [st_mtime |-> 0, st_size |-> 0]]

\* a sound file on disk, nothing cached; f_audio numbers the contents the
\* file has had
CacheInit ==
    /\ CtlInit(0, 0, {TRUE})
    /\ pi_connected
    /\ cfg.servo_gpio = DEFAULT_SERVO_GPIO
    /\ cfg.power_gpio = DEFAULT_POWER_GPIO
    /\ sox_installed = TRUE
    /\ NoCallbacks
    /\ NoMap /\ NoAngles /\ NoTrack /\ NoReplay /\ NoAux
    /\ f_stat = [st_mtime |-> 0, st_size |-> 1]
    /\ f_audio = 0
    /\ _envelope_cache = <<>>
    /\ env_ret = NoEnvelope
    /\ decodes = 0
    /\ fs_left = MaxFileSteps

CacheFrame == <<workerVars, playVars, liveVars, envVars, hwVars, delayVars,
                mapVars, anglesVars, trackVars, replayVars, auxVars>>

\* the file is replaced by another recording (an upload over the same name)
WriteFile ==
    /\ fs_left > 0
    /\ fs_left' = fs_left - 1
    /\ \E dt \in WriteDelays, sz \in FileSizes :
        f_stat' = [st_mtime |-> f_stat.st_mtime + dt, st_size |-> sz]
    /\ f_audio' = f_audio + 1
    /\ UNCHANGED <<_envelope_cache, env_ret, decodes, CacheFrame>>

\* compute_envelope lines 311-352: env_ret is the envelope returned (the
\* number of the contents it was computed from) and the stat of the file at
\* the call
compute_envelope ==
    /\ fs_left > 0
    /\ fs_left' = fs_left - 1
    /\ IF _env_key \in DOMAIN _envelope_cache
       THEN /\ env_ret' = [env |-> _envelope_cache[_env_key], stat |-> f_stat]
            /\ UNCHANGED <<_envelope_cache, decodes>>
       ELSE /\ decodes' = decodes + 1
            /\ _envelope_cache' = (_env_key :> f_audio) @@ _envelope_cache
            /\ env_ret' = [env |-> f_audio, stat |-> f_stat]
    /\ UNCHANGED <<f_stat, f_audio, CacheFrame>>

CacheNext == WriteFile \/ compute_envelope

CacheSpec == CacheInit /\ [][CacheNext]_vars

\* ------------------------------------------------- the smoothing filter
\* levels and coefficients are fixed-point numbers, Unit standing for 1.0;
\* a product is truncated to a multiple of 1 / Unit
Unit == 10000

\* the frame of compute_envelope (line 311) and the block of live_main with
\* the default blocksize and samplerate (line 2286), in microseconds
OfflineFrame == FRAME_MS * 1000
LiveFrame256 == (DEFAULT_BLOCKSIZE * 1000000) \div DEFAULT_SAMPLERATE
TrackFrames == {OfflineFrame, LiveFrame256}

\* np.exp(-frame_ms / max(1, ATTACK_MS)), lines 339 and 2287
atk_a(frame) == IF frame = OfflineFrame THEN 4724 ELSE 8752

\* a release that drops to the target within one block
rel_a_instant(frame) == 0

\* np.exp(-frame_ms / max(1, RELEASE_MS)), lines 340 and 2288
rel_a(frame) == IF frame = OfflineFrame THEN 7788 ELSE 9565

\* the update of lines 343-345 without the weight on the previous level
SmoothUnweighted(y, x, atk, rel) ==
    IF x > y THEN y + ((Unit - atk) * x) \div Unit
             ELSE y + ((Unit - rel) * x) \div Unit

\* lines 343-345 and 2351: one step of the attack/release filter
Smooth(y, x, atk, rel) ==
    IF x > y THEN (atk * y + (Unit - atk) * x) \div Unit
             ELSE (rel * y + (Unit - rel) * x) \div Unit

\* a block as the gate sees it: its level in dBFS and its RMS relative to the
\* reference percentile; an all-zero block has level -200 dBFS (line 2341)
TrackBlocks ==
    {[level_db |-> -200, ratio |-> 0], [level_db |-> -50, ratio |-> Unit \div 4],
     [level_db |-> -30, ratio |-> Unit \div 4], [level_db |-> -20, ratio |-> Unit \div 2],
     [level_db |-> -6, ratio |-> Unit]}

\* lines 333 and 2344-2350: the target level of a block
Target(b) == IF b.level_db < SILENCE_GATE_DBFS THEN 0 ELSE b.ratio

\* the number of blocks that span one release time constant
BlocksPerRelease(frame) == (RELEASE_MS * 1000 + frame - 1) \div frame

\* y = 0.0 of lines 341 and 2290, before the first block
TrackInit ==
    /\ CtlInit(0, 0, {TRUE})
    /\ pi_connected
    /\ cfg.servo_gpio = DEFAULT_SERVO_GPIO
    /\ cfg.power_gpio = DEFAULT_POWER_GPIO
    /\ sox_installed = TRUE
    /\ NoCallbacks
    /\ NoMap /\ NoAngles /\ NoCache /\ NoReplay /\ NoAux
    /\ trk_frame \in TrackFrames
    /\ trk_x = 0
    /\ trk_y = 0
    /\ trk_prev = 0
    /\ trk_quiet = [n |-> 0, y0 |-> 0]
    /\ trk_n = 0

\* lines 342-346 and process_block lines 2339-2351 on one block; blocks above
\* the gate arrive among the first MaxLoud blocks only. trk_quiet counts the
\* blocks since the target last was above 0 and keeps the level at that time
TrackBlock ==
    /\ trk_n < MaxTrackBlocks
    /\ trk_n' = trk_n + 1
    /\ \E b \in TrackBlocks :
        /\ Target(b) > 0 => trk_n < MaxLoud
        /\ trk_x' = Target(b)
        /\ trk_y' = Smooth(trk_y, Target(b), atk_a(trk_frame), rel_a(trk_frame))
        /\ trk_quiet' = IF Target(b) > 0 THEN [n |-> 0, y0 |-> 0]
                        ELSE IF trk_quiet.n = 0 THEN [n |-> 1, y0 |-> trk_y]
                        ELSE [trk_quiet EXCEPT !.n = @ + 1]
    /\ trk_prev' = trk_y
    /\ UNCHANGED trk_frame
    /\ UNCHANGED <<workerVars, playVars, liveVars, envVars, hwVars, delayVars,
                   mapVars, anglesVars, cacheVars, replayVars, auxVars>>

TrackNext == TrackBlock

TrackSpec == TrackInit /\ [][TrackNext]_vars

\* ------------------------------------- the motion thread against the clock
\* times in milliseconds. The lead of line 385, among them the default
\* sync_lead_ms of line 82
Leads == {0, 40, 180}

\* time that passes between two statements, and by which a sleep overshoots
Jitters == {0, 10, 20}

\* the sleep of line 391
SettleMs == 50

\* times[k - 1] of line 347, for the k-th sample
SampleTime(k) == (k - 1) * FRAME_MS

\* an origin that takes the lead off twice
T0Twice(origin, lead) == origin - lead - lead

\* line 392: t0 = time.perf_counter() - lead
T0(origin, lead) == origin - lead

\* the motion thread has been started (line 411)
ReplayInit ==
    /\ CtlInit(0, 0, {TRUE})
    /\ pi_connected
    /\ cfg.servo_gpio = DEFAULT_SERVO_GPIO
    /\ cfg.power_gpio = DEFAULT_POWER_GPIO
    /\ sox_installed = TRUE
    /\ NoCallbacks
    /\ NoMap /\ NoAngles /\ NoCache /\ NoTrack /\ NoAux
    /\ rp_pc = "start"
    /\ rp_lead \in Leads
    /\ rp_now = 0
    /\ rp_origin = 0
    /\ rp_t0 = 0
    /\ rp_idx = 0
    /\ rp_stop = FALSE
    /\ rp_log = <<>>

ReplayFrame == <<workerVars, playVars, liveVars, envVars, hwVars, delayVars,
                 mapVars, anglesVars, cacheVars, trackVars, auxVars>>

\* _runner lines 391-392: the closed-angle write (k = 0), the settle sleep,
\* the clock reading. Every write is logged with the clock at the write (at),
\* the clock reading the sleep was computed from (seen) and whether sleep was
\* called (slept)
RunnerStart ==
    /\ rp_pc = "start"
    /\ rp_log' = Append(rp_log, [k |-> 0, at |-> rp_now, seen |-> rp_now, slept |-> FALSE])
    /\ \E j \in Jitters :
        /\ rp_now' = rp_now + SettleMs + j
        /\ rp_origin' = rp_now'
        /\ rp_t0' = T0(rp_now', rp_lead)
    /\ rp_idx' = 1
    /\ rp_pc' = "replay"
    /\ UNCHANGED <<rp_lead, rp_stop, ReplayFrame>>

\* _runner lines 393-398 for one sample of zip(times, env)
RunnerSample ==
    /\ rp_pc = "replay"
    /\ IF rp_stop \/ rp_idx > MaxSamples
       THEN /\ rp_pc' = "poll"
            /\ UNCHANGED <<rp_now, rp_idx, rp_log>>
       ELSE \E j1 \in Jitters, j2 \in Jitters :
               LET seen == rp_now + j1
                   dt == (rp_t0 + SampleTime(rp_idx)) - seen
                   at == IF dt > 0 THEN seen + dt + j2 ELSE seen
               IN /\ dt <= 0 => j2 = 0
                  /\ rp_now' = at
                  /\ rp_log' = Append(rp_log, [k |-> rp_idx, at |-> at, seen |-> seen,
                                               slept |-> dt > 0])
                  /\ rp_idx' = rp_idx + 1
                  /\ rp_pc' = rp_pc
    /\ UNCHANGED <<rp_lead, rp_origin, rp_t0, rp_stop, ReplayFrame>>

\* stop_servo line 415 sets the stop event while the thread replays
RunnerStopSet ==
    /\ rp_pc = "replay"
    /\ ~rp_stop
    /\ rp_stop' = TRUE
    /\ UNCHANGED <<rp_pc, rp_lead, rp_now, rp_origin, rp_t0, rp_idx, rp_log, ReplayFrame>>

ReplayNext == RunnerStart \/ RunnerSample \/ RunnerStopSet

ReplaySpec == ReplayInit /\ [][ReplayNext]_vars

\* --------------------------------------------- /play requests that are refused
RejectReasons == {"missing", "outside", "notfound"}

\* /play lines 2166-2170 and 2189-2192 with resolve_file lines 232-238: a
\* request without 'file' is answered 400 before the try statement; for a
\* name outside the sound directory or a file that does not exist
\* resolve_file calls abort, whose HTTPException is caught by the handler's
\* own except Exception clause, which calls power_off and answers 500
PlayReject(r) ==
    /\ Serves(r)
    /\ \E reason \in RejectReasons :
        /\ clip' = [clip EXCEPT ![r] = reason]
        /\ power_line' = IF reason = "missing" THEN power_line ELSE power_write(0)
        /\ Finish(r, IF reason = "missing" THEN "bad_request" ELSE "play_failed")
    /\ op' = [op EXCEPT ![r] = "play"]
    /\ UNCHANGED <<found, did, allfail, lmode>>
    /\ UNCHANGED <<playVars, liveVars, envVars, delayVars, calcVars, servo_cmd>>

RejectNext == Next \/ \E r \in Workers : PlayReject(r)

\* the playback server, some of whose /play requests name no usable file
RejectSpec == Init /\ [][RejectNext]_vars

\* ------------------------------------------- start_play, candidate by candidate
AlsaDevices == {"", "hw:5,0", "plughw:1,0"}
SpawnOutcomes == {"alive", "exited", "nospawn"}
FallbackDevices == <<"plughw:1,0", "default", "plughw:0,0", "plughw:2,0", "plughw:3,0">>

\* the fallback devices are tried before the configured one
candidates_fallback_first(dev) ==
    SelectSeq(FallbackDevices \o <<dev>>, LAMBDA x : x # "")

\* lines 435 and 437: the configured device first, empty names left out
candidates(dev) ==
    SelectSeq(<<dev>> \o FallbackDevices, LAMBDA x : x # "")

\* the server's configuration and hardware play no part
PureInit ==
    /\ CtlInit(0, 0, {TRUE})
    /\ pi_connected
    /\ cfg.servo_gpio = DEFAULT_SERVO_GPIO
    /\ cfg.power_gpio = DEFAULT_POWER_GPIO
    /\ sox_installed = TRUE
    /\ NoCallbacks
    /\ NoOld

\* start_play has been called; sp_outcome[k] is what the k-th spawn will do
StartInit ==
    /\ PureInit
    /\ NoFrames
    /\ NoHist
    /\ NoRunner
    /\ NoCat
    /\ sp_dev \in AlsaDevices
    /\ sp_outcome \in [1..Len(candidates(sp_dev)) -> SpawnOutcomes]
    /\ sp_i = 1
    /\ sp_tried = <<>>
    /\ sp_children = <<>>
    /\ sp_result = "running"

PureFrame == <<workerVars, playVars, liveVars, envVars, hwVars, delayVars,
               mapVars, anglesVars, cacheVars, trackVars, replayVars>>

StartFrame == <<PureFrame, framesVars, histVars, runnerVars, catVars>>

\* lines 437-448, one pass of the loop: Popen, the wait of START_WAIT_MS and
\* the poll test; a spawn that raises leaves no process
StartTry ==
    /\ sp_result = "running"
    /\ sp_i <= Len(candidates(sp_dev))
    /\ sp_tried' = Append(sp_tried, candidates(sp_dev)[sp_i])
    /\ sp_children' = Append(sp_children,
                             CASE sp_outcome[sp_i] = "alive" -> "alive"
                               [] sp_outcome[sp_i] = "exited" -> "dead"
                               [] OTHER -> "none")
    /\ IF sp_outcome[sp_i] = "alive"
       THEN sp_result' = "returned" /\ sp_i' = sp_i
       ELSE sp_result' = sp_result /\ sp_i' = sp_i + 1
    /\ UNCHANGED <<sp_dev, sp_outcome>>
    /\ UNCHANGED StartFrame

\* line 449: the loop has run out of candidates
StartRaise ==
    /\ sp_result = "running"
    /\ sp_i > Len(candidates(sp_dev))
    /\ sp_result' = "raised"
    /\ UNCHANGED <<sp_dev, sp_outcome, sp_i, sp_tried, sp_children>>
    /\ UNCHANGED StartFrame

StartNext == StartTry \/ StartRaise

StartSpec == StartInit /\ [][StartNext]_vars

\* ------------------------------------------ compute_envelope, frame by frame
\* sample rates for which a frame of FRAME_MS holds 3 or 6 samples
FrameRates == {100, 200}
ClipSamples == 0..MaxClipSamples

\* line 323: frame_len = int(sr * frame_ms / 1000.0)
frame_len(sr) == (sr * FRAME_MS) \div 1000

\* the frame count without its lower limit of one
n_frames_floor(len, sr) == len \div frame_len(sr)

\* line 324: n_frames = max(1, len(samples) // frame_len)
n_frames(len, sr) ==
    IF len \div frame_len(sr) < 1 THEN 1 ELSE len \div frame_len(sr)

\* line 327: len(samples[i*frame_len:(i+1)*frame_len]) for a clip of len samples
WindowLen(len, sr, i) ==
    LET lo == IF i * frame_len(sr) > len THEN len ELSE i * frame_len(sr)
        hi == IF (i + 1) * frame_len(sr) > len THEN len ELSE (i + 1) * frame_len(sr)
    IN hi - lo

\* the clip has been decoded (lines 316-321) and the loop of line 326 begins
FramesInit ==
    /\ PureInit
    /\ NoStart
    /\ NoHist
    /\ NoRunner
    /\ NoCat
    /\ fr_pc = "loop"
    /\ fr_sr \in FrameRates
    /\ fr_samples \in ClipSamples
    /\ fr_i = 0
    /\ fr_rms = <<>>

FramesFrame == <<PureFrame, startVars, histVars, runnerVars, catVars>>

\* lines 326-329, one pass of the loop; fr_rms holds, for every envelope
\* sample, the number of clip samples its RMS was taken over
FrameRms ==
    /\ fr_pc = "loop"
    /\ fr_i < n_frames(fr_samples, fr_sr)
    /\ IF WindowLen(fr_samples, fr_sr, fr_i) = 0
       THEN fr_pc' = "done" /\ UNCHANGED <<fr_i, fr_rms>>
       ELSE /\ fr_rms' = Append(fr_rms, WindowLen(fr_samples, fr_sr, fr_i))
            /\ fr_i' = fr_i + 1
            /\ fr_pc' = fr_pc
    /\ UNCHANGED <<fr_sr, fr_samples>>
    /\ UNCHANGED FramesFrame

\* line 330: range(n_frames) is used up
FramesDone ==
    /\ fr_pc = "loop"
    /\ fr_i >= n_frames(fr_samples, fr_sr)
    /\ fr_pc' = "done"
    /\ UNCHANGED <<fr_sr, fr_samples, fr_i, fr_rms>>
    /\ UNCHANGED FramesFrame

FramesNext == FrameRms \/ FramesDone

FramesSpec == FramesInit /\ [][FramesNext]_vars

\* ----------------------------------------- the rolling history of live_main
\* --samplerate and --blocksize giving windows of 3, 2, 1 and 1 blocks
HistArgs == {[samplerate |-> 48000, blocksize |-> 32768],
             [samplerate |-> 8000, blocksize |-> 8192],
             [samplerate |-> 8000, blocksize |-> 16384],
             [samplerate |-> 8000, blocksize |-> 32768]}

\* a window of two seconds instead of two and a half
window_blocks_two_seconds(a) ==
    IF (2 * a.samplerate) \div a.blocksize < 1 THEN 1
    ELSE (2 * a.samplerate) \div a.blocksize

\* line 2289: max(1, int(2.5 * args.samplerate / args.blocksize))
window_blocks(a) ==
    IF (25 * a.samplerate) \div (10 * a.blocksize) < 1 THEN 1
    ELSE (25 * a.samplerate) \div (10 * a.blocksize)

\* live_main line 2289: hist has been created, no block has been processed
HistInit ==
    /\ PureInit
    /\ NoStart
    /\ NoFrames
    /\ NoRunner
    /\ NoCat
    /\ hist = <<>>
    /\ hist_args \in HistArgs
    /\ hist_seen = <<>>

HistFrame == <<PureFrame, startVars, framesVars, runnerVars, catVars>>

\* process_block lines 2341-2342: the magnitude of the block is appended to
\* hist, a deque of maxlen window_blocks; lines 2343-2353 read hist without
\* changing it. hist_seen lists the magnitudes of all blocks processed
HistBlock ==
    /\ Len(hist_seen) < MaxHistBlocks
    /\ \E rms \in BlockLevels :
        /\ hist' = deque_append(hist, window_blocks(hist_args), rms)
        /\ hist_seen' = Append(hist_seen, rms)
    /\ UNCHANGED hist_args
    /\ UNCHANGED HistFrame

HistNext == HistBlock

HistSpec == HistInit /\ [][HistNext]_vars

\* -------------------------------- the motion thread, statement by statement
\* the motion thread has been started (line 411) for a process that plays
RunnerInit ==
    /\ PureInit
    /\ NoStart
    /\ NoFrames
    /\ NoHist
    /\ NoCat
    /\ rn_pc = "start"
    /\ rn_idx = 1
    /\ rn_stop = FALSE
    /\ rn_proc = "alive"
    /\ rn_late = 0
    /\ rn_log = <<>>

RunnerFrame == <<PureFrame, startVars, framesVars, histVars, catVars>>

\* stop_servo line 415, from a request thread, at any point of the thread
RunnerSetStop ==
    /\ rn_pc \notin {"done", "died"}
    /\ ~rn_stop
    /\ rn_stop' = TRUE
    /\ UNCHANGED <<rn_pc, rn_idx, rn_proc, rn_late, rn_log>>
    /\ UNCHANGED RunnerFrame

\* mpg123 ends
RunnerProcEnds ==
    /\ rn_pc \notin {"done", "died"}
    /\ rn_proc = "alive"
    /\ rn_proc' = "dead"
    /\ UNCHANGED <<rn_pc, rn_idx, rn_stop, rn_late, rn_log>>
    /\ UNCHANGED RunnerFrame

\* lines 391-392: the closed angle is written and t0 is taken
RunnerBegin ==
    /\ rn_pc = "start"
    /\ \/ rn_pc' = "check" /\ rn_log' = Append(rn_log, "closed")
       \/ rn_pc' = "died" /\ rn_log' = rn_log
    /\ UNCHANGED <<rn_idx, rn_stop, rn_proc, rn_late>>
    /\ UNCHANGED RunnerFrame

\* the head of the loop without the test of line 394
RunnerCheckBlind ==
    /\ rn_pc = "check"
    /\ rn_pc' = IF rn_idx > RunnerEnvLen THEN "poll" ELSE "write"
    /\ UNCHANGED <<rn_idx, rn_stop, rn_proc, rn_late, rn_log>>
    /\ UNCHANGED RunnerFrame

\* lines 393-394: the loop ends when the envelope is used up or the flag is
\* found set
RunnerCheck ==
    /\ rn_pc = "check"
    /\ rn_pc' = IF rn_idx > RunnerEnvLen \/ rn_stop THEN "poll" ELSE "write"
    /\ UNCHANGED <<rn_idx, rn_stop, rn_proc, rn_late, rn_log>>
    /\ UNCHANGED RunnerFrame

\* lines 395-398: the sleep until the sample is due and the write of its
\* angle; a write that raises ends the thread. rn_late counts the sample
\* angles written since the flag was set
RunnerWrite ==
    /\ rn_pc = "write"
    /\ \/ /\ rn_pc' = "check"
          /\ rn_idx' = rn_idx + 1
          /\ rn_log' = Append(rn_log, "sample")
          /\ rn_late' = IF rn_stop THEN rn_late + 1 ELSE rn_late
       \/ /\ rn_pc' = "died"
          /\ UNCHANGED <<rn_idx, rn_log, rn_late>>
    /\ UNCHANGED <<rn_stop, rn_proc>>
    /\ UNCHANGED RunnerFrame

\* lines 399-401: the wait for the flag or the end of the process; the
\* thread sleeps 20 ms and tests again while neither has happened
RunnerPoll ==
    /\ rn_pc = "poll"
    /\ rn_stop \/ rn_proc = "dead"
    /\ rn_pc' = "park"
    /\ UNCHANGED <<rn_idx, rn_stop, rn_proc, rn_late, rn_log>>
    /\ UNCHANGED RunnerFrame

\* lines 402-407: the park sequence; a write that raises skips the rest of it
RunnerPark ==
    /\ rn_pc = "park"
    /\ rn_pc' = "done"
    /\ \E n \in 0..2 : rn_log' = rn_log \o SubSeq(<<"closed", "zero">>, 1, n)
    /\ UNCHANGED <<rn_idx, rn_stop, rn_proc, rn_late>>
    /\ UNCHANGED RunnerFrame

RunnerNext ==
    \/ RunnerSetStop
    \/ RunnerProcEnds
    \/ RunnerBegin
    \/ RunnerCheck
    \/ RunnerWrite
    \/ RunnerPoll
    \/ RunnerPark

RunnerSpec == RunnerInit /\ [][RunnerNext]_vars

\* ------------------------------------------------------- category requests
\* names as requests send them; "" also stands for a name that is missing
RawNames == {"A", "a", "B", "b", " a ", ""}
CatFiles == {"x.mp3", "y.mp3"}
\* "" is a request without 'file', gone.mp3 a file that does not exist
CatFileArgs == CatFiles \cup {"", "gone.mp3"}
RawCatLists == UNION {[1..n -> RawNames] : n \in 0..MaxCatList}

\* str.strip and str.lower on the names of RawNames
strip(s) == IF s = " a " THEN "a" ELSE s

lower(s) == CASE s = "A" -> "a" [] s = "B" -> "b" [] OTHER -> s

\* lines 1873-1879; "" stands for None
_normalize_category_name(name) == strip(name)

SeqRange(s) == {s[k] : k \in 1..Len(s)}

\* the elements of s in order, each kept at its first place only
RECURSIVE FirstOnly(_, _)
FirstOnly(acc, s) ==
    IF s = <<>> THEN acc
    ELSE FirstOnly(IF Head(s) \in SeqRange(acc) THEN acc ELSE Append(acc, Head(s)), Tail(s))

\* lines 188-203, for a list of strings
_coerce_categories(value) ==
    FirstOnly(<<>>, SelectSeq([k \in 1..Len(value) |-> strip(value[k])], LAMBDA c : c # ""))

\* lines 206-214
_normalized_assignment_map(raw) ==
    [fn \in {f \in DOMAIN raw : _coerce_categories(raw[f]) # <<>>} |->
        _coerce_categories(raw[fn])]

\* the test of line 1910 made case-sensitive
CategoryExistsExact(name) == \E c \in SeqRange(categories) : name = c

\* line 1910: any(name.lower() == c.lower() for c in cfg["categories"])
CategoryExists(name) == \E c \in SeqRange(categories) : lower(name) = lower(c)

\* the server after start-up with the category data of DEFAULT_CONFIG
CatInit ==
    /\ PureInit
    /\ NoStart
    /\ NoFrames
    /\ NoHist
    /\ NoRunner
    /\ NoCat

CatFrame == <<PureFrame, startVars, framesVars, histVars, runnerVars>>

\* POST /categories, lines 1903-1914
categories_post ==
    /\ \E raw \in RawNames :
        LET name == _normalize_category_name(raw)
        IN IF name = ""
           THEN cat_resp' = "name_missing" /\ categories' = categories
           ELSE IF CategoryExists(name)
           THEN cat_resp' = "exists" /\ categories' = categories
           ELSE cat_resp' = "ok" /\ categories' = Append(categories, name)
    /\ file_categories' = _normalized_assignment_map(file_categories)
    /\ UNCHANGED CatFrame

\* DELETE /categories/<name>, lines 1916-1943
categories_delete ==
    /\ \E raw \in RawNames :
        LET cname == _normalize_category_name(raw)
            ensured == _normalized_assignment_map(file_categories)
            hits == {k \in 1..Len(categories) : lower(categories[k]) = lower(cname)}
            remaining(fn) == SelectSeq(ensured[fn], LAMBDA c : lower(c) # lower(cname))
        IN IF cname = "" \/ hits = {}
           THEN /\ cat_resp' = "not_found"
                /\ categories' = categories
                /\ file_categories' = ensured
           ELSE /\ cat_resp' = "removed"
                /\ categories' = SelectSeq(categories, LAMBDA c : lower(c) # lower(cname))
                /\ file_categories' =
                      [fn \in {f \in DOMAIN ensured : remaining(f) # <<>>} |-> remaining(fn)]
    /\ UNCHANGED CatFrame

\* POST /file-category, lines 1945-1983, for a request that carries a list
\* of names; resolve_file aborts for a file that does not exist
file_category_post ==
    /\ \E fn \in CatFileArgs, raw_cats \in RawCatLists :
        LET ensured == _normalized_assignment_map(file_categories)
            names == SelectSeq([k \in 1..Len(raw_cats) |->
                                   _normalize_category_name(raw_cats[k])],
                               LAMBDA c : c # "")
            normalized == FirstOnly(<<>>, names)
        IN IF fn = ""
           THEN cat_resp' = "file_missing" /\ file_categories' = ensured
           ELSE IF fn \notin CatFiles
           THEN cat_resp' = "no_such_file" /\ file_categories' = ensured
           ELSE IF \E c \in SeqRange(names) : c \notin SeqRange(categories)
           THEN cat_resp' = "unknown_category" /\ file_categories' = ensured
           ELSE /\ cat_resp' = "ok"
                /\ file_categories' =
                      IF normalized # <<>>
                      THEN [f \in DOMAIN ensured \cup {fn} |->
                               IF f = fn THEN normalized ELSE ensured[f]]
                      ELSE [f \in DOMAIN ensured \ {fn} |-> ensured[f]]
    /\ categories' = categories
    /\ UNCHANGED CatFrame

CatNext == categories_post \/ categories_delete \/ file_category_post

CatSpec == CatInit /\ [][CatNext]_vars

C2_OneMotionThread == Cardinality({i \in Pids : ThreadAlive(i)}) <= 1

\* ---------------------------------------------------------------- C3
\* C3: while a motion thread of a playback session is alive, no live process
\* is streaming with the servo hooked up to its callback
C3_OneActuatorWriter ==
    ~ /\ \E i \in Pids : ThreadAlive(i)
      /\ \E l \in LivePids : lprocs[l].st = "streaming" /\ lprocs[l].servo_gpio # 0

\* ---------------------------------------------------------------- C4
\* C4: a /live-start that arrives while the registered live process is running
\* is answered already_running (409) at once, spawns nothing and leaves the
\* live slot and the live processes as they were
C4_RejectsSecondLiveStart ==
    [][\A r \in Workers :
          (/\ pc[r] = "idle"
           /\ op'[r] = "live_start"
           /\ live_proc.p # 0
           /\ lprocs[live_proc.p].st \in {"init", "streaming"})
          => /\ pc'[r] = "ret"
             /\ resp'[r] = "already_running"
             /\ live_proc' = live_proc
             /\ lprocs' = lprocs]_vars

\* a /live-start has been rejected while the live process it found is running
C4_Rejected ==
    \E r \in Workers :
        /\ pc[r] = "ret"
        /\ op[r] = "live_start"
        /\ resp[r] = "already_running"
        /\ live_proc.p # 0
        /\ lprocs[live_proc.p].st = "streaming"

\* ---------------------------------------------------------------- C5
\* C5: a /stop that finds no running process and no live motion thread
\* terminates nothing, sets no flag, leaves both slots empty and the power
\* line low, and answers ok; where the slots are already empty and the power
\* line low (the state a stop leaves) a further stop changes neither
C5_StopSafeWhenIdle ==
    [][\A r \in Workers :
          (/\ op[r] = "stop"
           /\ pc[r] \in {"lock", "sc_join", "sc_park", "sc_zero", "sc_done"}
           /\ pc'[r] # pc[r]
           /\ pc[r] # "lock"
              => /\ found[r] = 0
                 /\ \A k \in DOMAIN did[r] : did[r][k] # "join_timeout"
           /\ ~ (current_proc.p # 0 /\ procs[current_proc.p] = "alive")
           /\ IF servo_thread.t = 0 THEN TRUE
              ELSE thr[servo_thread.t].pc \in {"unborn", "done"})
          => /\ found'[r] = 0
             /\ procs' = procs
             /\ thr' = thr
             /\ current_proc' = [p |-> 0, file |-> "none"]
             /\ \A k \in DOMAIN did'[r] : did'[r][k] \notin {"terminate", "join_timeout"}
             /\ pc'[r] = "sc_done"
                => /\ servo_thread' = [t |-> 0, stop |-> 0]
                   /\ pi_connected /\ cfg.power_gpio # 0 => power_line' = 0
             /\ pc'[r] = "ret" => resp'[r] = "ok"
             /\ (servo_thread = [t |-> 0, stop |-> 0] /\ power_line = 0)
                => (servo_thread' = [t |-> 0, stop |-> 0] /\ power_line' = 0)]_vars

\* two /stop requests have been served one after the other with nothing ever
\* played, and both answered ok
C5_StoppedTwiceWhenIdle ==
    \E r, q \in Workers :
        /\ r # q
        /\ pc[r] = "ret" /\ op[r] = "stop" /\ resp[r] = "ok" /\ found[r] = 0
        /\ pc[q] = "ret" /\ op[q] = "stop" /\ resp[q] = "ok" /\ found[q] = 0
        /\ plays_left = MaxPlays
        /\ current_proc = NoProc
        /\ servo_thread = ClearedServoThread

\* ---------------------------------------------------------------- C6
\* C6: when stop_current has returned, both slots are empty, terminate has
\* been sent to the process found running, an active servo has been commanded
\* to the closed angle and after that to pulse width 0, and a wired power line
\* has been written low and is low
C6_TeardownComplete ==
    \A r \in Workers :
        pc[r] = "sc_done"
        => /\ current_proc = NoProc
           /\ servo_thread = ClearedServoThread
           /\ found[r] # 0 => \E k \in DOMAIN did[r] : did[r][k] = "terminate"
           /\ is_servo_active
              => \E j, k \in DOMAIN did[r] :
                    j < k /\ did[r][j] = "closed" /\ did[r][k] = "zero"
           /\ PowerWired
              => /\ power_line = 0
                 /\ \E k \in DOMAIN did[r] : did[r][k] = "power_off"

\* ---------------------------------------------------------------- C7
\* C7: once the registered playback process has ended on its own and no
\* request and no motion thread is running any more, a wired power line is low
C7_PowerLowAfterNaturalEnd ==
    (/\ PowerWired
     /\ \A r \in Workers : pc[r] = "idle"
     /\ \A i \in Pids : ~ThreadAlive(i)
     /\ current_proc.p # 0
     /\ procs[current_proc.p] = "dead")
    => power_line = 0

\* ---------------------------------------------------------------- C8
\* C8: a /play of a clip whose envelope cannot be computed still takes the
\* lock and starts the player; unless every candidate fails it answers ok with
\* the process registered and running under the clip's name, and it launches
\* no motion thread
C8_DecodeFailureKeepsPlayback ==
    [][\A r \in Workers :
          /\ (pc[r] = "idle" /\ op'[r] = "play" /\ ~Decodable(clip'[r]))
             => pc'[r] = "lock"
          /\ (/\ op[r] = "play"
              /\ ~Decodable(clip[r])
              /\ pc[r] = "start"
              /\ pc'[r] # "start"
              /\ ~allfail'[r])
             => /\ pc'[r] = "ret"
                /\ resp'[r] = "ok"
                /\ current_proc'.p # 0
                /\ procs[current_proc'.p] = "unborn"
                /\ procs'[current_proc'.p] = "alive"
                /\ current_proc'.file = clip[r]
                /\ servo_thread' = ClearedServoThread
                /\ thr' = thr]_vars

\* with the servo active, an undecodable clip is playing: the request has
\* answered ok, the process is registered and running, no motion thread exists
C8_PlayingWithoutMotion ==
    \E r \in Workers :
        /\ pc[r] = "ret"
        /\ op[r] = "play"
        /\ ~Decodable(clip[r])
        /\ resp[r] = "ok"
        /\ is_servo_active
        /\ current_proc.p # 0
        /\ procs[current_proc.p] = "alive"
        /\ current_proc.file = clip[r]
        /\ servo_thread.t = 0
        /\ thr[current_proc.p].pc = "unborn"

\* ---------------------------------------------------------------- C9
\* C9: when every candidate device fails, the /play registers no process and
\* launches no motion thread, and it returns start_failed with a wired power
\* line written low
C9_AllCandidatesFail ==
    [][\A r \in Workers :
          /\ (pc[r] = "start" /\ pc'[r] # "start" /\ allfail'[r])
             => /\ pc'[r] = "except"
                /\ current_proc = NoProc
                /\ current_proc' = NoProc
                /\ servo_thread' = ClearedServoThread
                /\ procs' = procs
                /\ thr' = thr
          /\ (pc[r] = "except" /\ pc'[r] # "except")
             => /\ allfail[r]
                /\ pc'[r] = "ret"
                /\ resp'[r] = "start_failed"
                /\ current_proc' = current_proc
                /\ servo_thread' = servo_thread
                /\ procs' = procs
                /\ thr' = thr
                /\ PowerWired => power_line' = 0
          /\ (op[r] = "play" /\ pc[r] # "ret" /\ pc'[r] = "ret" /\ allfail'[r])
             => pc[r] = "except"]_vars

\* a /play whose candidates all failed has returned start_failed with the
\* wired power line low and nothing registered
C9_StartFailed ==
    \E r \in Workers :
        /\ pc[r] = "ret"
        /\ op[r] = "play"
        /\ allfail[r]
        /\ resp[r] = "start_failed"
        /\ PowerWired
        /\ power_line = 0
        /\ current_proc = NoProc
        /\ \A i \in Pids : procs[i] = "unborn"

\* --------------------------------------------------------------- C10
\* C10: in fx mode with a delay line of capacity N >= 1 the block handed to
\* process_block is the block pushed N pushes earlier; with N = 0 it is the
\* block of the same callback
C10_HandsBlockPushedNEarlier ==
    /\ (args_mode = "fx" /\ delay_blocks >= 1 /\ handed # NoBlock)
       => handed.n = pushes - delay_blocks
    /\ (args_mode = "fx" /\ delay_blocks = 0 /\ pushes > 0)
       => handed.n = pushes

\* --------------------------------------------------------------- C11
\* C11: when a /live-stop that found the live process running has completed
\* and no other live process is running, the servo that process drove is at
\* pulse width 0 and a wired power line is low
C11_LiveStopParksActuator ==
    \A r \in Workers :
        (/\ pc[r] = "ret"
         /\ op[r] = "live_stop"
         /\ found[r] # 0
         /\ lprocs[found[r]].servo_gpio # 0
         /\ \A l \in LivePids : lprocs[l].st \notin {"init", "streaming"})
        => /\ servo_cmd = 0
           /\ PowerWired => power_line = 0

\* --------------------------------------------------------------- C12
\* C12: no /live-start has answered ok for a subprocess whose SoX process
\* could not be spawned
C12_SoxFailureFailsStart ==
    \A r \in Workers :
        (/\ pc[r] = "ret"
         /\ op[r] = "live_start"
         /\ resp[r] = "ok")
        => lprocs[found[r]].st # "sox_failed"

\* --------------------------------------------------------------- C20
\* C20: as long as no live subprocess has ended (only /live-start requests
\* have acted on them), at most one live subprocess has been spawned and it is
\* the one the live slot refers to
C20_AtomicLiveStart ==
    (\A l \in LivePids : lprocs[l].st \in {"unborn", "init", "streaming"})
    => /\ Cardinality({l \in LivePids : lprocs[l].st # "unborn"}) <= 1
       /\ \A l \in LivePids : lprocs[l].st # "unborn" => live_proc.p = l

\* --------------------------------------------------------------- C19
\* C19: with servo_gpio unset no step of a playback session (start, motion,
\* stop) issues a servo command or launches a motion thread, and with
\* power_gpio unset no step writes the power line
C19_UnconfiguredChannelUntouched ==
    [][/\ cfg.servo_gpio = 0
          => /\ servo_cmd' = servo_cmd
             /\ thr' = thr
             /\ servo_thread' = servo_thread \/ servo_thread' = ClearedServoThread
             /\ \A r \in Workers : \A k \in DOMAIN did'[r] :
                   did'[r][k] \notin {"closed", "zero"}
       /\ cfg.power_gpio = 0
          => /\ power_line' = power_line
             /\ \A r \in Workers : \A k \in DOMAIN did'[r] :
                   did'[r][k] # "power_off"]_vars

\* with pigpio connected and both channels unset a clip has been started and
\* then stopped, and neither the servo nor the power line has been written
C19_PlayedAndStoppedUnwired ==
    \E r \in Workers :
        /\ pc[r] = "ret"
        /\ op[r] = "stop"
        /\ found[r] # 0
        /\ pi_connected
        /\ cfg.servo_gpio = 0
        /\ cfg.power_gpio = 0
        /\ servo_cmd = 0
        /\ power_line = 0
        /\ \A i \in Pids : thr[i].pc = "unborn"

\* --------------------------------------------------------------- C13
\* C13: for every geometry with 0 <= closed <= open <= 180, the playback
\* thread and the live tracker both map level 0 to exactly the closed angle
\* and level 1 to exactly the open angle.
C13_EndpointsMapExactly ==
    /\ m_geom.closed >= 0 /\ m_geom.closed <= m_geom.open_ /\ m_geom.open_ <= 180
    /\ m_level = 0 =>
        /\ m_play = m_geom.closed * 100
        /\ m_live = m_geom.closed * 100
    /\ m_level = 100 =>
        /\ m_play = m_geom.open_ * 100
        /\ m_live = m_geom.open_ * 100

C13_FullLevelOnOffsetGeometry ==
    /\ m_level = 100
    /\ m_geom.closed > 0
    /\ m_geom.closed < m_geom.open_
    /\ m_play = m_geom.open_ * 100
    /\ m_live = m_geom.open_ * 100

\* --------------------------------------------------------------- C14
\* C14: angle_to_us and angle_to_us_local return a pulse width within
\* [500, 2500], 500 for every angle <= 0 and 2500 for every angle >= 180,
\* they never decrease when the angle grows, and they return the same value
\* for the same angle.
C14_PulseWidthClampedMonotone ==
    us_main # 0 =>
        /\ us_main >= 500 /\ us_main <= 2500
        /\ us_local >= 500 /\ us_local <= 2500
        /\ us_in <= 0 => us_main = 500
        /\ us_in >= 18000 => us_main = 2500
        /\ us_local = us_main
        /\ (us_prev.us # 0 /\ us_prev.angle <= us_in) => us_prev.us <= us_main
        /\ (us_prev.us # 0 /\ us_prev.angle >= us_in) => us_prev.us >= us_main

C14_ConvertedBeyondBothEnds ==
    /\ us_prev.us = 500
    /\ us_prev.angle < 0
    /\ us_in > 18000
    /\ us_main = 2500
    /\ us_local = 2500

\* --------------------------------------------------------------- C15
\* C15: whenever no /angles request is in progress the stored geometry
\* satisfies 0 <= closed <= open <= 180, and a request whose pair is
\* out of range, not an integer, or has open < closed is answered with an
\* error and leaves the stored values unchanged.
C15_GeometryKeptBadPairRejected ==
    [][LET BadValue(v) == v.kind = "none" \/ v.t % 10 # 0 \/ v.t < 0 \/ v.t > 1800
       IN /\ (\A r \in Workers : pc'[r] # "set_open") =>
               /\ 0 <= cfg'.closed_angle
               /\ cfg'.closed_angle <= cfg'.open_angle
               /\ cfg'.open_angle <= 180
          /\ \A r \in Workers :
               (/\ pc[r] = "idle" /\ op'[r] = "angles"
                /\ \/ BadValue(angles_data'[r].closed_angle)
                   \/ BadValue(angles_data'[r].open_angle)
                   \/ angles_data'[r].open_angle.t < angles_data'[r].closed_angle.t)
               => /\ pc'[r] = "ret"
                  /\ resp'[r] \in {"bad_angles", "bad_order"}
                  /\ cfg' = cfg]_vars

\* --------------------------------------------------------------- C16
\* C16: a call of compute_envelope on a file whose fingerprint (path,
\* modification time, size) is the same as at the previous call returns the
\* same envelope without decoding again; a call after the file's
\* modification time has changed does not return the envelope cached before.
C16_CacheFollowsFingerprint ==
    [][(/\ f_audio' = f_audio /\ fs_left' # fs_left /\ env_ret.env # -1)
       => /\ env_ret.stat = f_stat =>
               /\ decodes' = decodes
               /\ env_ret'.env = env_ret.env
          /\ env_ret.stat.st_mtime # f_stat.st_mtime =>
               env_ret'.env # env_ret.env]_vars

C18_SmoothedLevelBounded ==
    /\ trk_x >= 0 /\ trk_x <= Unit
    /\ trk_y >= 0 /\ trk_y <= Unit
    /\ (trk_n > 0 /\ trk_x = Unit) => trk_y >= trk_prev

C18_RisingUnderFullScale ==
    /\ trk_n = MaxLoud
    /\ trk_x = Unit
    /\ trk_prev > Unit \div 2
    /\ trk_y > trk_prev
    /\ trk_y < Unit

\* --------------------------------------------------------------- C21
\* C21: every step that changes the current-playback slots (current_proc,
\* servo_thread) or the current-live slot (live_proc) is taken by a request
\* thread that holds play_lock before or after the step.
C21_SlotsChangeUnderLock ==
    [][(\/ current_proc' # current_proc
        \/ servo_thread' # servo_thread
        \/ live_proc' # live_proc)
       => (play_lock.owner # 0 \/ play_lock'.owner # 0)]_vars

\* --------------------------------------------------------------- C22
\* C22: the power line goes high only in a step after which the playback
\* process started by the requesting /play is running, and it is not high
\* when start_play has failed on every candidate.
C22_PowerHighOnlyAfterStart ==
    [][/\ (power_line # 1 /\ power_line' = 1)
          => \E r \in Workers :
                /\ op[r] = "play"
                /\ pc[r] # "ret" /\ pc'[r] = "ret" /\ resp'[r] = "ok"
                /\ ProcRunning(current_proc.p)'
       /\ \A r \in Workers :
            (pc[r] = "start" /\ pc'[r] = "except") => power_line' # 1]_vars

\* --------------------------------------------------------------- C23
\* C23: a servo write that raises during the envelope replay does not end the
\* motion thread: a thread that is replaying goes on replaying or moves on to
\* the poll loop and the park, it never ends from the replay.
C23_ReplayWriteFailureSwallowed ==
    [][\A i \in Pids : thr[i].pc = "replay" => thr'[i].pc \in {"replay", "poll"}]_vars

\* --------------------------------------------------------------- C24
\* C24: no exception leaves the audio callback, whichever statement of the
\* callback raised it.
C24_NothingLeavesCallback == cb_exc = "none"

\* --------------------------------------------------------------- C25
\* C25: in a callback whose write to SoX raised BrokenPipeError, in the
\* callback where the pipe broke and in every later one, the write does not
\* end the callback, and the delay line and the block handed to the tracker
\* are those of a callback whose write succeeded.
C25_BrokenPipeKeepsTracking ==
    [][(pushes' = pushes + 1 /\ cb_write' = "broken_pipe")
       => /\ cb_exc' # "write"
          /\ IF delay_blocks > 0
             THEN /\ Len(q_delay') = (IF Len(q_delay) < delay_blocks
                                     THEN Len(q_delay) + 1 ELSE delay_blocks)
                  /\ q_delay'[Len(q_delay')].n = pushes'
                  /\ \A k \in 1..(Len(q_delay') - 1) :
                        q_delay'[k] = q_delay[k + Len(q_delay) + 1 - Len(q_delay')]
                  /\ handed' = IF Len(q_delay') = delay_blocks
                               THEN q_delay'[1] ELSE NoBlock
             ELSE /\ q_delay' = q_delay
                  /\ handed'.n = pushes']_vars

C25_TrackedPastBrokenPipe ==
    /\ sox_pipe = "broken"
    /\ cb_write = "broken_pipe"
    /\ cb_exc = "none"
    /\ delay_blocks = 2
    /\ pushes = MaxBlocks
    /\ handed.n = pushes - 1

\* --------------------------------------------------------------- C29
\* C29: in fx mode with a delay line of capacity N >= 1, a callback that gets
\* past its write hands no block to the tracker while the delay line holds
\* fewer than N blocks, and once it holds N every callback hands exactly one
\* block: the first block that arrived, then the block that arrived after the
\* one handed last.
C29_DelayLineReleasesInOrder ==
    [][(/\ pushes' = pushes + 1
        /\ args_mode = "fx" /\ delay_blocks >= 1
        /\ cb_exc' # "write")
       => /\ pushes' < delay_blocks => handed' = NoBlock
          /\ pushes' >= delay_blocks =>
                /\ handed' # NoBlock
                /\ handed'.n = (IF handed = NoBlock THEN 1 ELSE handed.n + 1)
                /\ \E k \in DOMAIN q_delay' : q_delay'[k] = handed']_vars

C29_ReleasedThirdOfFour ==
    /\ args_mode = "fx"
    /\ delay_blocks = 2
    /\ pushes = MaxBlocks
    /\ handed.n = pushes - 1
    /\ cb_exc = "none"
    /\ cb_write = "ok"

\* --------------------------------------------------------------- C26
\* C26: the first write of the motion thread is the closed angle; the writes
\* after it are the samples 1, 2, 3, ... in this order, each once; sample k
\* is never written before origin + times[k] - lead; and a sample whose
\* scheduled instant had passed when the thread looked at the clock is
\* written without a sleep.
C26_ReplayInOrderNotEarly ==
    \A j \in DOMAIN rp_log :
        /\ rp_log[j].k = j - 1
        /\ j > 1 =>
            /\ rp_log[j].at >= rp_origin + (rp_log[j].k - 1) * FRAME_MS - rp_lead
            /\ rp_log[j].at >= rp_log[j - 1].at
            /\ (rp_origin + (rp_log[j].k - 1) * FRAME_MS - rp_lead <= rp_log[j].seen)
               => (~rp_log[j].slept /\ rp_log[j].at = rp_log[j].seen)

C26_SleptAfterPastSamples ==
    /\ rp_pc = "poll"
    /\ ~rp_stop
    /\ rp_lead = 40
    /\ Len(rp_log) = MaxSamples + 1
    /\ ~rp_log[2].slept
    /\ rp_log[Len(rp_log)].slept
    /\ rp_log[Len(rp_log)].at = rp_origin + (MaxSamples - 1) * FRAME_MS - rp_lead

C28_StopCurrentReturns ==
    /\ [](\A r \in Workers :
            /\ play_lock.owner = r
               => \/ pc[r] \in {"sc_join", "sc_park", "sc_zero"} /\ play_lock.count = 2
                  \/ pc[r] \in {"sc_done", "start"} /\ play_lock.count = 1
            /\ pc[r] \in {"sc_join", "sc_park", "sc_zero", "sc_done", "start"}
               => play_lock.owner = r)
    /\ \A r \in Workers :
            (pc[r] \in {"sc_join", "sc_park", "sc_zero"}) ~> (pc[r] = "sc_done")

C28_ReturnedWithThreadAlive ==
    \E r \in Workers :
        /\ pc[r] = "sc_done"
        /\ op[r] = "stop"
        /\ \E k \in DOMAIN did[r] : did[r][k] = "join_timeout"
        /\ \E i \in Pids : ThreadAlive(i)

\* --------------------------------------------------------------- C30
\* C30: every angle written for a playback session is computed from the
\* geometry the configuration held when the session's motion thread was
\* launched: the samples and the park written by the thread, and the park
\* written by the stop_current that found the session's process running.
C30_SessionKeepsStartGeometry ==
    [][/\ \A i \in Pids :
            /\ (thr[i].pc = "unborn" /\ thr'[i].pc # "unborn")
               => /\ thr'[i].closed = cfg.closed_angle
                  /\ thr'[i].open_ = cfg.open_angle
            /\ thr[i].pc # "unborn"
               => /\ thr'[i].closed = thr[i].closed
                  /\ thr'[i].open_ = thr[i].open_
            /\ (thr[i].pc = "poll" /\ thr'[i].pc # "poll")
               => servo_cmd' = angle_to_us(thr[i].closed * 100)
       /\ \A r \in Workers :
            (/\ pc[r] = "sc_park" /\ pc'[r] # "sc_park"
             /\ found[r] # 0
             /\ thr[found[r]].pc # "unborn"
             /\ is_servo_active)
            => servo_cmd' = angle_to_us(thr[found[r]].closed * 100)]_vars

\* C34: a /play that is refused before any playback is started (no 'file'
\* parameter, a name outside the sound directory, a file that does not
\* exist) leaves a running playback session as it is: the processes, the
\* motion threads and the power line keep their values
C34_RefusedPlayLeavesSession ==
    [][\A r \in Workers :
          (/\ pc[r] = "idle"
           /\ pc'[r] = "ret"
           /\ clip'[r] \in RejectReasons
           /\ current_proc.p # 0
           /\ procs[current_proc.p] = "alive")
          => /\ procs' = procs
             /\ thr' = thr
             /\ servo_thread' = servo_thread
             /\ current_proc' = current_proc
             /\ power_line' = power_line]_vars

\* C35: a /live-stop leaves a running playback session as it is: neither of
\* its two steps changes the playback processes, the motion threads or the
\* power line, whether or not a live session was running
C35_LiveStopLeavesPlayback ==
    [][\A r \in Workers :
          (/\ \/ pc[r] = "idle" /\ op'[r] = "live_stop"
              \/ pc[r] = "live_clear"
           /\ pc'[r] # pc[r]
           /\ current_proc.p # 0
           /\ procs[current_proc.p] = "alive")
          => /\ procs' = procs
             /\ thr' = thr
             /\ servo_thread' = servo_thread
             /\ current_proc' = current_proc
             /\ power_line' = power_line]_vars

\* C31: start_play tries the devices in the order configured device,
\* plughw:1,0, default, plughw:0,0, plughw:2,0, plughw:3,0 (an empty
\* configured name is left out); it returns the first candidate that is
\* alive after the wait and tries none after it; it raises only when every
\* candidate exited or failed to spawn; and when it has returned or raised
\* no process of an earlier candidate is alive
C31_FirstAliveInFixedOrder ==
    LET order == IF sp_dev = ""
                 THEN <<"plughw:1,0", "default", "plughw:0,0", "plughw:2,0", "plughw:3,0">>
                 ELSE <<sp_dev, "plughw:1,0", "default", "plughw:0,0", "plughw:2,0", "plughw:3,0">>
        n == Len(sp_tried)
    IN sp_result # "none" =>
       /\ n <= Len(order)
       /\ Len(sp_children) = n
       /\ \A k \in 1..n : sp_tried[k] = order[k]
       /\ \A k \in 1..n : k < n => sp_children[k] # "alive"
       /\ sp_result = "running" => \A k \in 1..n : sp_children[k] # "alive"
       /\ sp_result = "returned" =>
             /\ n >= 1
             /\ sp_children[n] = "alive"
             /\ \A k \in 1..(n - 1) : sp_outcome[k] # "alive"
       /\ sp_result = "raised" =>
             /\ n = Len(order)
             /\ \A k \in 1..n : sp_outcome[k] \in {"exited", "nospawn"}
             /\ \A k \in 1..n : sp_children[k] # "alive"

\* start_play has returned the fourth candidate after one spawn failure and
\* two early exits, with the last two candidates never tried
C31_ReturnedFourthCandidate ==
    /\ sp_result = "returned"
    /\ sp_dev = "hw:5,0"
    /\ sp_tried = <<"hw:5,0", "plughw:1,0", "default", "plughw:0,0">>
    /\ sp_children = <<"none", "dead", "dead", "alive">>

\* C32 (as stated): for every clip length the envelope has exactly
\* floor(sample_count / frame_length) samples, clips shorter than one frame
\* included
C32_EnvelopeLengthIsFloor ==
    fr_pc = "done" => Len(fr_rms) = fr_samples \div ((fr_sr * FRAME_MS) \div 1000)

\* C32 (amended): a clip of at least one frame gives exactly
\* floor(sample_count / frame_length) envelope samples, each taken over a
\* whole frame, so its trailing remainder gives none; a clip that is not
\* empty but shorter than one frame gives one envelope sample, taken over
\* all of its samples; an empty clip gives none
C32_EnvelopeLengthAtLeastOne ==
    LET fl == (fr_sr * FRAME_MS) \div 1000
    IN fr_pc = "done" =>
       /\ fr_samples >= fl =>
             /\ Len(fr_rms) = fr_samples \div fl
             /\ \A k \in 1..Len(fr_rms) : fr_rms[k] = fl
       /\ (fr_samples > 0 /\ fr_samples < fl) => fr_rms = <<fr_samples>>
       /\ fr_samples = 0 => fr_rms = <<>>

\* a clip of two samples, shorter than the frame of three, has an envelope
\* of one sample
C32_ShortClipOneSample ==
    /\ fr_pc = "done"
    /\ fr_sr = 100
    /\ fr_samples = 2
    /\ fr_rms = <<2>>

\* C33: the rolling history never holds more than window_blocks =
\* max(1, floor(2.5 * samplerate / blocksize)) entries, and after k
\* processed blocks it holds the magnitudes of the most recent
\* min(k, window_blocks) blocks, in the order in which they arrived
C33_HistoryIsLastWindow ==
    LET f == (25 * hist_args.samplerate) \div (10 * hist_args.blocksize)
        wb == IF f < 1 THEN 1 ELSE f
        k == Len(hist_seen)
        n == IF k < wb THEN k ELSE wb
    IN hist_args.blocksize # 0 =>
       /\ Len(hist) <= wb
       /\ Len(hist) = n
       /\ \A j \in 1..n : hist[j] = hist_seen[k - n + j]

\* five blocks have been processed with a window of three; the history holds
\* the last three, the first two have been dropped
C33_WindowOfThreeSlid ==
    /\ hist_args = [samplerate |-> 48000, blocksize |-> 32768]
    /\ hist_seen = <<100, 50, 0, 50, 100>>
    /\ hist = <<0, 50, 100>>

\* C36: wherever in the replay loop the cancellation flag is set, the motion
\* thread writes at most one more sample angle after it: a thread that
\* stands before a sample write with the flag set has written none since
\* the flag was set, and a thread that has parked has written at most one
C36_AtMostOneLateSample ==
    /\ rn_late <= 1
    /\ (rn_pc = "write" /\ rn_stop) => rn_late = 0
    /\ rn_pc \in {"park", "done"} => rn_late <= 1

\* the flag was set while the thread slept before the second sample: the
\* thread wrote that sample, none after it, and parked
C36_ParkedAfterOneLateSample ==
    /\ rn_pc = "done"
    /\ rn_stop
    /\ rn_late = 1
    /\ rn_proc = "alive"
    /\ rn_log = <<"closed", "sample", "sample", "closed", "zero">>

\* C37: starting from empty category data, after any sequence of category
\* creations, category deletions and file assignments, every name in a
\* file's assignment list is in the category list, no two entries of the
\* category list are equal ignoring case, and no file has an empty list
C37_CategoryDataConsistent ==
    /\ \A fn \in DOMAIN file_categories :
          /\ file_categories[fn] # <<>>
          /\ \A k \in 1..Len(file_categories[fn]) :
                \E j \in 1..Len(categories) : categories[j] = file_categories[fn][k]
    /\ \A i, j \in 1..Len(categories) :
          i # j => lower(categories[i]) # lower(categories[j])

\* two categories were created and both assigned to a file, then one was
\* deleted under a name of different case: the file keeps the other one
C37_AssignmentSurvivesDelete ==
    /\ cat_resp = "removed"
    /\ categories = <<"b">>
    /\ DOMAIN file_categories = {"x.mp3", "y.mp3"}
    /\ file_categories["x.mp3"] = <<"b">>
    /\ file_categories["y.mp3"] = <<"b">>

====
